---- MODULE Spec2Model ----
(***************************************************************************)
(* Model of the live-lang compiler: a Hydra-like call chain is lowered to  *)
(* an IR arena (src/ir/builder.rs) and the arena is evaluated by the       *)
(* coordinate-threading emitter (src/backend/spirv_visitor.rs).            *)
(*                                                                         *)
(* Numbers.  A literal of the script and an argument of the IR is an Int   *)
(* counting thousandths (0.5 is 500, 60.0 is 60000); what the emitted      *)
(* instructions compute is an IEEE binary32 value (see f_add below).       *)
(*                                                                         *)
(* Emitted values.  The emitter returns SPIR-V result ids; the model       *)
(* returns the expression the id denotes, as a term                        *)
(*     [op |-> emitter name, k |-> <<f32 constants>>, s |-> <<operands>>]  *)
(* so two ids are the same value iff their terms are equal.                *)
(***************************************************************************)
EXTENDS Integers, Sequences, FiniteSets, TLC

\* script     the parsed Script handed to emit_pipeline (its body)
\* pc         where emit_pipeline stands
\* nodes      ir_builder.nodes, the IR arena
\* root       the Option<NodeId> build_script returned (NoId for None)
\* variables  context.variables, the name -> value map of the emitter
\* log        the record of emit_ir_node calls and of accesses to variables
\* color      the colour emit_ir_node returned for the root (NoWord for None)
\* body       the instructions of main the model follows (stores, return)
\* module     the entry points and execution modes declared so far
\* device     the device the assembled module runs on, by what it makes of
\*            the extended instructions 42 and 39 on floats (see Devices);
\*            <<>> until the module is assembled
VARIABLES script, pc, nodes, root, variables, log, color, body, module, device

vars == <<script, pc, nodes, root, variables, log, color, body, module, device>>

(***************************************************************************)
(* Bounds of the model.                                                    *)
(***************************************************************************)
\* longest method chain after the head call of a generated script
MaxChain == 2
\* longest argument list of the calls whose arguments vary
MaxArgs == 3
\* deepest nesting of member and call expressions around the innermost one
MaxNest == 2
\* longest chain of operations applied to a constant colour or to a coordinate
MaxOps == 1
\* most statements of a generated script of several statements
MaxStmts == 3

(***************************************************************************)
(* Numbers and conversions.                                                *)
(***************************************************************************)
Unit == 10 * 10 * 10

(***************************************************************************)
(* Floats.  An f32 of the compiler, and what an emitted instruction        *)
(* computes, is an IEEE 754 binary32 value: [c |-> "fin", s, m, e] is      *)
(* (-1)^s * m * 2^e with either 2^23 <= m < 2^24 and -149 <= e <= 104      *)
(* (normal) or m < 2^23 and e = -149 (subnormal, zero); [c |-> "inf", s]   *)
(* is an infinity and [c |-> "nan"] a NaN.  Every operation rounds its     *)
(* exact result to the nearest value, ties to the even mantissa.           *)
(***************************************************************************)
\* bits of a mantissa, least and greatest exponent of a finite value
MantBits == 23 + 1
MinExp == 0 - 149
MaxExp == 127 - 23

NaN == [c |-> "nan", s |-> 0, m |-> 0, e |-> 0]
Inf(s) == [c |-> "inf", s |-> s, m |-> 0, e |-> 0]
Fin(s, m, e) == [c |-> "fin", s |-> s, m |-> m, e |-> e]
FZero(s) == Fin(s, 0, MinExp)

IsNaN(x) == x.c = "nan"
IsInf(x) == x.c = "inf"
IsFZero(x) == x.c = "fin" /\ x.m = 0
IsFinite(x) == x.c = "fin"

\* sign of a product or quotient
SignXor(x, y) == IF x.s = y.s THEN 0 ELSE 1

\* the number of bits of n < 2^(2 * w), found by halving the width w
RECURSIVE BitLenWithin(_, _)
BitLenWithin(n, w) ==
    IF w = 0 THEN n
    ELSE IF n >= 2^w THEN w + BitLenWithin(n \div 2^w, w \div 2)
    ELSE BitLenWithin(n, w \div 2)

\* the number of bits of n, 0 <= n < 2^31; a mantissa has 24 bits and the
\* numbers to round have few more, so these lengths are told apart first
BitLen(n) ==
    IF n < 2^(MantBits - 1) THEN BitLenWithin(n, 16)
    ELSE IF n < 2^MantBits THEN MantBits
    ELSE IF n < 2^(MantBits + 3)
    THEN (IF n < 2^(MantBits + 1) THEN MantBits + 1
          ELSE IF n < 2^(MantBits + 2) THEN MantBits + 2 ELSE MantBits + 3)
    ELSE IF n < 2^(MantBits + 5)
    THEN (IF n < 2^(MantBits + 4) THEN MantBits + 4 ELSE MantBits + 5)
    ELSE IF n < 2^(MantBits + 6) THEN MantBits + 6 ELSE MantBits + 7

\* the binary32 value nearest to (-1)^s * (n + f) * 2^e, ties to even, where
\* 0 <= n < 2^30, and 0 < f < 1 if sticky, f = 0 otherwise; a sticky n has
\* more than MantBits + 1 bits
round_f32(s, n, e, sticky) ==
    LET len == BitLen(n)
        by_len == len - MantBits
        by_exp == MinExp - e
        shift == IF by_len > by_exp THEN by_len ELSE by_exp
    IN  IF n = 0 THEN FZero(s)
        ELSE IF shift <= 0
        THEN LET up == IF 0 - by_len < 0 - by_exp THEN 0 - by_len ELSE 0 - by_exp
             IN  IF e - up > MaxExp THEN Inf(s) ELSE Fin(s, n * 2^up, e - up)
        ELSE IF shift > len THEN FZero(s)
        ELSE LET q == n \div 2^shift
                 r == n % 2^shift
                 half == 2^(shift - 1)
                 round_up == r > half \/ (r = half /\ (sticky \/ q % 2 = 1))
                 q2 == IF round_up THEN q + 1 ELSE q
                 m2 == IF q2 = 2^MantBits THEN 2^(MantBits - 1) ELSE q2
                 e2 == IF q2 = 2^MantBits THEN e + shift + 1 ELSE e + shift
             IN  IF e2 > MaxExp THEN Inf(s) ELSE Fin(s, m2, e2)

\* the integer n as a float, |n| < 2^30
f32_of_int(n) == round_f32(IF n < 0 THEN 1 ELSE 0, IF n < 0 THEN 0 - n ELSE n, 0, FALSE)

\* mantissa and exponent of a finite non-zero float with the mantissa
\* brought to MantBits bits (the exponent of a subnormal drops below MinExp)
Normalised(x) ==
    LET up == MantBits - BitLen(x.m)
    IN  [m |-> x.m * 2^up, e |-> x.e - up]

f_negate(x) == IF IsNaN(x) THEN x ELSE [x EXCEPT !.s = 1 - x.s]

\* |x| >= |y| for finite x and y
AbsGeq(x, y) == x.e > y.e \/ (x.e = y.e /\ x.m >= y.m)

\* OpFAdd
f_add(x, y) ==
    IF IsNaN(x) \/ IsNaN(y) THEN NaN
    ELSE IF IsInf(x) THEN (IF IsInf(y) /\ y.s /= x.s THEN NaN ELSE x)
    ELSE IF IsInf(y) THEN y
    ELSE IF x.m = 0 /\ y.m = 0 THEN FZero(IF x.s = 1 /\ y.s = 1 THEN 1 ELSE 0)
    ELSE IF x.m = 0 THEN y
    ELSE IF y.m = 0 THEN x
    ELSE LET big == IF AbsGeq(x, y) THEN x ELSE y
             small == IF AbsGeq(x, y) THEN y ELSE x
             d == big.e - small.e
             same == big.s = small.s
         IN  IF d <= 5
             THEN LET n == big.m * 2^d + (IF same THEN small.m ELSE 0 - small.m)
                  IN  IF n = 0 THEN FZero(0) ELSE round_f32(big.s, n, small.e, FALSE)
             ELSE LET sh == d - 5
                      lost == sh >= MantBits
                      kept == IF lost THEN 0 ELSE small.m \div 2^sh
                      st == lost \/ small.m % 2^sh /= 0
                      wide == big.m * 2^5
                      n == IF same THEN wide + kept
                           ELSE wide - kept - (IF st THEN 1 ELSE 0)
                  IN  round_f32(big.s, n, big.e - 5, st)

\* OpFSub
f_sub(x, y) == f_add(x, f_negate(y))

\* OpFMul; the 48-bit product of the mantissas is formed of 12-bit halves
f_mul(x, y) ==
    LET s == SignXor(x, y)
    IN  IF IsNaN(x) \/ IsNaN(y) THEN NaN
        ELSE IF IsInf(x) \/ IsInf(y)
        THEN (IF IsFZero(x) \/ IsFZero(y) THEN NaN ELSE Inf(s))
        ELSE IF x.m = 0 \/ y.m = 0 THEN FZero(s)
        ELSE LET a == Normalised(x)
                 b == Normalised(y)
                 a1 == a.m \div 2^12
                 a0 == a.m % 2^12
                 b1 == b.m \div 2^12
                 b0 == b.m % 2^12
                 lo == a0 * b0
                 mid == a1 * b0 + a0 * b1 + lo \div 2^12
                 hi == a1 * b1 + mid \div 2^12
                 low12 == lo % 2^12
                 mid12 == mid % 2^12
                 n == hi * 2^6 + mid12 \div 2^6
                 st == mid12 % 2^6 /= 0 \/ low12 /= 0
             IN  round_f32(s, n, a.e + b.e + 18, st)

\* k more bits of the quotient by b after the quotient q with remainder
\* r < b < 2^24, six bits at a step
RECURSIVE LongDiv(_, _, _, _)
LongDiv(q, r, b, k) ==
    LET w == IF k >= 6 THEN 6 ELSE k
    IN  IF k = 0 THEN [q |-> q, r |-> r]
        ELSE LongDiv(q * 2^w + (r * 2^w) \div b, (r * 2^w) % b, b, k - w)

\* OpFDiv, and the f32 division of the compiler
f_div(x, y) ==
    LET s == SignXor(x, y)
    IN  IF IsNaN(x) \/ IsNaN(y) THEN NaN
        ELSE IF IsInf(x) THEN (IF IsInf(y) THEN NaN ELSE Inf(s))
        ELSE IF IsInf(y) THEN FZero(s)
        ELSE IF y.m = 0 THEN (IF x.m = 0 THEN NaN ELSE Inf(s))
        ELSE IF x.m = 0 THEN FZero(s)
        ELSE LET a == Normalised(x)
                 b == Normalised(y)
                 d == LongDiv(a.m \div b.m, a.m % b.m, b.m, MantBits + 3)
             IN  round_f32(s, d.q, a.e - b.e - (MantBits + 3), d.r /= 0)

\* OpFOrdLessThan: false when an operand is a NaN
f_ord_less_than(x, y) ==
    IF IsNaN(x) \/ IsNaN(y) THEN FALSE
    ELSE IF IsFZero(x) /\ IsFZero(y) THEN FALSE
    ELSE IF x.s /= y.s THEN x.s = 1
    ELSE LET x_below == IF IsInf(x) THEN FALSE
                        ELSE IF IsInf(y) THEN TRUE
                        ELSE ~AbsGeq(x, y)
             y_below == IF IsInf(y) THEN FALSE
                        ELSE IF IsInf(x) THEN TRUE
                        ELSE ~AbsGeq(y, x)
         IN  IF x.s = 0 THEN x_below ELSE y_below

\* equal as numbers: -0 = +0, a NaN equals nothing
f_ord_equal(x, y) ==
    ~IsNaN(x) /\ ~IsNaN(y) /\ ~f_ord_less_than(x, y) /\ ~f_ord_less_than(y, x)

\* The compiler emits the extended instructions 42 and 39 of GLSL.std.450
\* on floats and calls them FMax and FMin; in that instruction set 42 is
\* SMax and 39 is SMin, of signed integers (FMax is 40, FMin is 37).  What
\* they yield on floats is left to the device that runs the module:
\*   <<"float", a, b>>    the greater (lesser) float; with a NaN operand
\*                        instruction 42 yields its first operand if a,
\*                        instruction 39 its first operand if b, otherwise
\*                        the second
\*   <<"integer", n, FALSE>>  the operand whose word is the greater (lesser)
\*                        signed integer; the word of a NaN is negative if n
Devices == ({"float"} \X BOOLEAN \X BOOLEAN) \cup ({"integer"} \X BOOLEAN \X {FALSE})
NoDevice == <<>>

\* |x| < |y| in the order of the words: finite, infinite, NaN
MagLess(x, y) ==
    IF IsNaN(y) THEN ~IsNaN(x)
    ELSE IF IsNaN(x) THEN FALSE
    ELSE IF IsInf(y) THEN ~IsInf(x)
    ELSE IF IsInf(x) THEN FALSE
    ELSE ~AbsGeq(x, y)

\* the sign bit of the word of x on a device of the integer reading
WordSign(x) == IF IsNaN(x) THEN (IF device[2] THEN 1 ELSE 0) ELSE x.s

\* the word of x is below the word of y as a signed integer
WordLess(x, y) ==
    IF WordSign(x) /= WordSign(y) THEN WordSign(x) = 1 ELSE MagLess(x, y)

\* instruction 42 on floats
f_max(x, y) ==
    IF device[1] = "integer" THEN (IF WordLess(x, y) THEN y ELSE x)
    ELSE IF IsNaN(x) \/ IsNaN(y) THEN (IF device[2] THEN x ELSE y)
    ELSE IF f_ord_less_than(x, y) THEN y ELSE x

\* instruction 39 on floats
f_min(x, y) ==
    IF device[1] = "integer" THEN (IF WordLess(y, x) THEN y ELSE x)
    ELSE IF IsNaN(x) \/ IsNaN(y) THEN (IF device[3] THEN x ELSE y)
    ELSE IF f_ord_less_than(y, x) THEN y ELSE x

\* f32::max of the compiler: the other operand when one is a NaN
f32_max(x, y) ==
    IF IsNaN(x) THEN y ELSE IF IsNaN(y) THEN x
    ELSE IF f_ord_less_than(x, y) THEN y ELSE x

\* GLSL.std.450 Floor (8)
emit_glsl_floor(x) ==
    IF ~IsFinite(x) \/ x.m = 0 \/ x.e >= 0 THEN x
    ELSE IF 0 - x.e >= MantBits
    THEN (IF x.s = 0 THEN FZero(0) ELSE f32_of_int(0 - 1))
    ELSE LET q == x.m \div 2^(0 - x.e)
             r == x.m % 2^(0 - x.e)
         IN  IF x.s = 0 THEN round_f32(0, q, 0, FALSE)
             ELSE IF r = 0 THEN x
             ELSE round_f32(1, q + 1, 0, FALSE)

\* the float nearest to the literal of v thousandths, |v| < 2^31: the
\* quotient of |v| by 1000 to 27 or 28 bits and what is left, rounded once
f32_of_literal(v) ==
    LET n == IF v < 0 THEN 0 - v ELSE v
        k == MantBits + 13 - BitLen(n)
        d == LongDiv(n \div Unit, n % Unit, Unit, k)
    IN  round_f32(IF v < 0 THEN 1 ELSE 0, d.q, 0 - k, d.r /= 0)

\* the floats of the literals between -2 and 5, computed once
SmallLiterals == [v \in (0 - 2 * Unit) .. 5 * Unit |-> f32_of_literal(v)]

emit_f32_constant(v) == IF v \in DOMAIN SmallLiterals THEN SmallLiterals[v] ELSE f32_of_literal(v)

\* below 8192 two literals a thousandth apart have different floats
Dense == 2^13 * Unit

\* the float nearest to n thousandths, 8192 <= n / 1000 < 2^21, as the
\* mantissa of exponent -k, where k = 24 - (bits of the integer part): the
\* integer part fills the high bits and the thousandths are rounded to k
\* bits (never a tie, as k >= 3)
NearMantissa(n, k) == (n \div Unit) * 2^k + (2 * (n % Unit) * 2^k + Unit) \div (2 * Unit)

\* the count of thousandths nearest to m * 2^-k
NearThousandths(m, k) == (m \div 2^k) * Unit + (2 * (m % 2^k) * Unit + 2^k) \div 2^(k + 1)

\* `n.value as f32`: the float nearest to the literal, kept as the count of
\* thousandths nearest to that float (emit_f32_constant of it is that float).
\* Below 8192 that is the literal itself; from there on several literals
\* share a float (32768.999 and 32769 are both 32769.0).  The literals of
\* the model lie below 2^21.
AsF32(v) ==
    LET n == IF v < 0 THEN 0 - v ELSE v
        k == MantBits - BitLen(n \div Unit)
        t == NearThousandths(NearMantissa(n, k), k)
    IN  IF n < Dense THEN v
        ELSE IF v < 0 THEN 0 - t ELSE t

\* `x as u32` of a number written in thousandths: truncation toward zero,
\* saturating at 0 below (no number of the model reaches 2^32)
AsU32(v) == IF v <= 0 THEN 0 ELSE v \div Unit

\* Option::None of a NodeId
NoId == -1

(***************************************************************************)
(* The AST (swc_ecma_ast) as far as the builder looks at it.               *)
(*   t = "Call":   kids[1] is the callee, the rest are the arguments       *)
(*   t = "Member": kids[1] is the object, name the property identifier,    *)
(*                 name = "" for a computed property                       *)
(*   t = "Ident":  name                                                    *)
(*   t = "Num":    v, a numeric literal                                    *)
(*   t = "Str":    any other expression                                    *)
(***************************************************************************)
Num(x) == [t |-> "Num", name |-> "", v |-> x, kids |-> <<>>]
Ident(n) == [t |-> "Ident", name |-> n, v |-> 0, kids |-> <<>>]
Str(n) == [t |-> "Str", name |-> n, v |-> 0, kids |-> <<>>]
Member(obj, n) == [t |-> "Member", name |-> n, v |-> 0, kids |-> <<obj>>]
Call(callee, args) == [t |-> "Call", name |-> "", v |-> 0, kids |-> <<callee>> \o args]

CallArgs(call) == SubSeq(call.kids, 2, Len(call.kids))
Callee(call) == call.kids[1]

\* source(args) and receiver.method(args)
SourceCall(n, args) == Call(Ident(n), args)
MethodCall(recv, n, args) == Call(Member(recv, n), args)

\* statements of a script
ExprStmt(e) == [t |-> "Expr", e |-> e]
EmptyStmt == [t |-> "Empty", e |-> Str("")]

(***************************************************************************)
(* IR nodes (src/ir/node.rs).  One record shape for the five kinds: a is   *)
(* child or left, b is right, NoId where the kind has no such field.       *)
(***************************************************************************)
Source(ty, args) == [kind |-> "Source", ty |-> ty, args |-> args, a |-> NoId, b |-> NoId, index |-> 0]
Spatial(ty, args, child) == [kind |-> "Spatial", ty |-> ty, args |-> args, a |-> child, b |-> NoId, index |-> 0]
UnaryColor(ty, args, child) == [kind |-> "UnaryColor", ty |-> ty, args |-> args, a |-> child, b |-> NoId, index |-> 0]
\* a Binary node with the left operand in both fields
Binary_left_twice(ty, args, left, right) == [kind |-> "Binary", ty |-> ty, args |-> args, a |-> left, b |-> left, index |-> 0]
Binary(ty, args, left, right) == [kind |-> "Binary", ty |-> ty, args |-> args, a |-> left, b |-> right, index |-> 0]
Output(child, index) == [kind |-> "Output", ty |-> "", args |-> <<>>, a |-> child, b |-> NoId, index |-> index]

\* ir.nodes[id.0]
NodeAt(ns, id) == ns[id + 1]

(***************************************************************************)
(* IRBuilder (src/ir/builder.rs).  The builder state is the arena ns; every *)
(* build_* returns [nodes, id], id = NoId for None.                        *)
(***************************************************************************)
\* push with the id read after the node is appended
push_id_after(ns, kind) == [nodes |-> Append(ns, kind), id |-> Len(ns) + 1]

push(ns, kind) == [nodes |-> Append(ns, kind), id |-> Len(ns)]

\* the literals up to the first argument that is no numeric literal
extract_f32_args_until_gap(call) ==
    LET args == CallArgs(call)
        gaps == {i \in 1 .. Len(args) : args[i].t # "Num"}
        n == IF gaps = {} THEN Len(args) ELSE (CHOOSE i \in gaps : \A j \in gaps : i <= j) - 1
    IN  [i \in 1 .. n |-> AsF32(args[i].v)]

extract_f32_args(call) ==
    LET lits == SelectSeq(CallArgs(call), LAMBDA a : a.t = "Num")
    IN  [i \in 1..Len(lits) |-> AsF32(lits[i].v)]

classify_source(name) ==
    CASE name = "osc" -> "Osc"
      [] name = "noise" -> "Noise"
      [] name = "solid" -> "Solid"
      [] name = "gradient" -> "Gradient"
      [] name = "shape" -> "Shape"
      [] name = "voronoi" -> "Voronoi"
      [] name = "src" -> "Src"
      [] OTHER -> ""

classify_spatial(name) ==
    CASE name = "scale" -> "Scale"
      [] name = "kaleid" -> "Kaleid"
      [] name = "rotate" -> "Rotate"
      [] name = "scrollX" -> "ScrollX"
      [] name = "scrollY" -> "ScrollY"
      [] name = "scroll" -> "Scroll"
      [] name = "repeat" -> "Repeat"
      [] name = "repeatX" -> "RepeatX"
      [] name = "repeatY" -> "RepeatY"
      [] name = "pixelate" -> "Pixelate"
      [] OTHER -> ""

classify_unary_color(name) ==
    CASE name = "invert" -> "Invert"
      [] name = "color" -> "Color"
      [] name = "brightness" -> "Brightness"
      [] name = "contrast" -> "Contrast"
      [] name = "saturate" -> "Saturate"
      [] name = "posterize" -> "Posterize"
      [] name = "thresh" -> "Thresh"
      [] name = "hue" -> "Hue"
      [] name = "colorama" -> "Colorama"
      [] name = "luma" -> "Luma"
      [] name = "shift" -> "Shift"
      [] OTHER -> ""

classify_binary(name) ==
    CASE name = "add" -> "Add"
      [] name = "sub" -> "Sub"
      [] name = "mult" -> "Mult"
      [] name = "blend" -> "Blend"
      [] name = "diff" -> "Diff"
      [] name = "layer" -> "Layer"
      [] name = "mask" -> "Mask"
      [] name = "modulate" -> "Modulate"
      [] name = "modulateScale" -> "ModulateScale"
      [] OTHER -> ""

\* the index taken from the first numeric literal anywhere in the list
out_index_any_literal(call) ==
    LET lits == SelectSeq(CallArgs(call), LAMBDA a : a.t = "Num")
    IN  IF Len(lits) >= 1 THEN AsU32(lits[1].v) ELSE 0

\* the `out` arm of build_call: index from the first argument
out_index(call) ==
    LET args == CallArgs(call)
    IN  IF Len(args) >= 1 /\ args[1].t = "Num" THEN AsU32(args[1].v) ELSE 0

\* the amount vector collected like the arguments of the other calls
binary_args_all_literals(call) ==
    LET lits == SelectSeq(CallArgs(call), LAMBDA a : a.t = "Num")
    IN  [i \in 1 .. Len(lits) |-> AsF32(lits[i].v)]

\* the amount vector of a binary call: the second argument when a literal
binary_args(call) ==
    LET args == CallArgs(call)
    IN  IF Len(args) > 1 /\ args[2].t = "Num" THEN <<AsF32(args[2].v)>> ELSE <<>>

\* an unknown method name answered with the id of the next node to be pushed
unknown_method_fresh_id(ns, base_node) == [nodes |-> ns, id |-> Len(ns)]

\* an unknown method name ends the build with None
unknown_method_fails(ns, base_node) == [nodes |-> ns, id |-> NoId]

\* the arm of build_call for a method name in none of the tables
unknown_method(ns, base_node) == [nodes |-> ns, id |-> base_node]

\* the left operand passed through when the right operand builds none
right_operand_fails_passes_left(ns, base_node) == [nodes |-> ns, id |-> base_node]

\* `let right = self.build_call(other_call)?;` when the right operand builds none
right_operand_fails(ns, base_node) == [nodes |-> ns, id |-> NoId]

\* none returned for a binary call without an operand chain
no_right_operand_fails(ns, base_node) == [nodes |-> ns, id |-> NoId]

\* a binary call whose first argument is absent or no call: `return Some(base_node)`
no_right_operand(ns, base_node) == [nodes |-> ns, id |-> base_node]

RECURSIVE build_expr(_, _), build_call(_, _), build_member(_, _), build_method(_, _, _)

build_expr(ns, expr) ==
    CASE expr.t = "Call" -> build_call(ns, expr)
      [] expr.t = "Member" -> build_member(ns, expr)
      [] OTHER -> [nodes |-> ns, id |-> NoId]

build_member(ns, member) == build_expr(ns, member.kids[1])

\* build_call, callee a member expression with an identifier property
build_method(ns, call, member) ==
    LET method_name == member.name
        base == build_expr(ns, member.kids[1])
        base_node == base.id
        bs == base.nodes
        args == CallArgs(call)
    IN  IF base_node = NoId THEN [nodes |-> bs, id |-> NoId]
        ELSE IF method_name = "out"
            THEN push(bs, Output(base_node, out_index(call)))
        ELSE IF classify_spatial(method_name) # ""
            THEN push(bs, Spatial(classify_spatial(method_name), extract_f32_args(call), base_node))
        ELSE IF classify_binary(method_name) # ""
            THEN IF Len(args) >= 1 /\ args[1].t = "Call"
                 THEN LET r == build_call(bs, args[1])
                      IN  IF r.id = NoId THEN right_operand_fails(r.nodes, base_node)
                          ELSE push(r.nodes, Binary(classify_binary(method_name),
                                                   binary_args(call), base_node, r.id))
                 ELSE no_right_operand(bs, base_node)
        ELSE IF classify_unary_color(method_name) # ""
            THEN push(bs, UnaryColor(classify_unary_color(method_name), extract_f32_args(call), base_node))
        ELSE unknown_method(bs, base_node)

build_call(ns, call) ==
    LET callee == Callee(call)
    IN  CASE callee.t = "Ident" ->
               IF classify_source(callee.name) # ""
               THEN push(ns, Source(classify_source(callee.name), extract_f32_args(call)))
               ELSE [nodes |-> ns, id |-> NoId]
          [] callee.t = "Member" /\ callee.name # "" -> build_method(ns, call, callee)
          [] OTHER -> [nodes |-> ns, id |-> NoId]

\* the first expression statement that builds a root decides
RECURSIVE first_building_stmt(_, _)
first_building_stmt(stmts, i) ==
    IF i > Len(stmts) THEN 0
    ELSE IF stmts[i].t = "Expr" /\ build_expr(<<>>, stmts[i].e).id # NoId THEN i
    ELSE first_building_stmt(stmts, i + 1)

\* the first expression statement decides; later statements are not looked at
RECURSIVE first_expr_stmt(_, _)
first_expr_stmt(stmts, i) ==
    IF i > Len(stmts) THEN 0
    ELSE IF stmts[i].t = "Expr" THEN i
    ELSE first_expr_stmt(stmts, i + 1)

build_script(ns, stmts) ==
    LET i == first_expr_stmt(stmts, 1)
    IN  IF i = 0 THEN [nodes |-> ns, id |-> NoId] ELSE build_expr(ns, stmts[i].e)

(***************************************************************************)
(* Emitted values and the emitter context (src/backend/spirv_context.rs).  *)
(***************************************************************************)
T(op, k, s) == [op |-> op, k |-> k, s |-> s]

\* Option::None of a Word
NoWord == T("None", <<>>, <<>>)

\* one entry of the evaluation record: ev is "enter" (emit_ir_node called on
\* node id with coordinate w), "exit" (it returned w), "insert" and "get"
\* (variables.insert(key, w), variables.get(key) = w)
Ev(ev, id, key, w) == [ev |-> ev, id |-> id, key |-> key, w |-> w]

\* the context while emitting: the variables map and the evaluation record
Cx(r) == [vars |-> r.vars, log |-> r.log]
Ret(w, cx) == [w |-> w, vars |-> cx.vars, log |-> cx.log]
Note(cx, e) == [vars |-> cx.vars, log |-> Append(cx.log, e)]

\* an insert that keeps the value already stored under the key
insert_if_absent(cx, key, w) ==
    [vars |-> [x \in DOMAIN cx.vars \cup {key} |->
                  IF x \in DOMAIN cx.vars THEN cx.vars[x] ELSE w],
     log |-> Append(cx.log, Ev("insert", NoId, key, w))]

\* HashMap::insert and HashMap::get on context.variables
insert(cx, key, w) ==
    [vars |-> [x \in DOMAIN cx.vars \cup {key} |-> IF x = key THEN w ELSE cx.vars[x]],
     log |-> Append(cx.log, Ev("insert", NoId, key, w))]

get(cx, key) == IF key \in DOMAIN cx.vars THEN cx.vars[key] ELSE NoWord

\* format!("o{}", index)
buffer_key(index) == "o" \o ToString(index)

\* compute_uv(): FragCoord.xy / (width, height)
compute_uv == T("uv", <<>>, <<>>)

(***************************************************************************)
(* Source emitters (src/backend/hydra_sources.rs).                         *)
(***************************************************************************)
\* the fabricated CallExpr `_tmp(args...)` of numeric literals
call_args_wrapper(args) == Call(Ident("_tmp"), [i \in 1..Len(args) |-> Num(args[i])])

get_arg_or_default(call, index, default) ==
    LET args == CallArgs(call)
    IN  IF index < Len(args) /\ args[index + 1].t = "Num"
        THEN AsF32(args[index + 1].v) ELSE default

\* a source that reads `_st`: None when `_st` is not installed
with_st(cx, op, k) ==
    LET st == get(cx, "_st")
    IN  IF st = NoWord THEN NoWord ELSE T(op, k, <<st>>)

emit_osc(cx, call) ==
    with_st(cx, "osc", <<get_arg_or_default(call, 0, 60000),
                         get_arg_or_default(call, 1, 100),
                         get_arg_or_default(call, 2, 0)>>)

emit_solid(cx, call) ==
    T("solid", <<get_arg_or_default(call, 0, 0), get_arg_or_default(call, 1, 0),
                 get_arg_or_default(call, 2, 0), get_arg_or_default(call, 3, 1000)>>, <<>>)

emit_gradient(cx, call) == with_st(cx, "gradient", <<>>)

emit_noise(cx, call) ==
    with_st(cx, "noise", <<get_arg_or_default(call, 0, 10000),
                           get_arg_or_default(call, 1, 0),
                           get_arg_or_default(call, 2, 1000)>>)

emit_shape(cx, call) ==
    with_st(cx, "shape", <<get_arg_or_default(call, 0, 3000),
                           get_arg_or_default(call, 1, 500),
                           get_arg_or_default(call, 2, 10)>>)

emit_voronoi(cx, call) ==
    with_st(cx, "voronoi", <<get_arg_or_default(call, 0, 5000),
                             get_arg_or_default(call, 1, 800)>>)

\* the colour a src(i) yields when buffer o{i} is not in the map
src_fallback(cx, args) == emit_solid(cx, call_args_wrapper(args))

\* the buffer sampled at the working coordinate
emit_src_sampled(cx, args) ==
    LET idx == AsU32(IF Len(args) >= 1 THEN args[1] ELSE 0)
        key == buffer_key(idx)
        val == IF key \in DOMAIN cx.vars
               THEN T("sample", <<idx>>, <<cx.vars[key], get(cx, "_st")>>)
               ELSE src_fallback(cx, args)
    IN  Ret(val, Note(cx, Ev("get", idx, key, get(cx, key))))

\* the Src arm of emit_source
emit_src(cx, args) ==
    LET idx == AsU32(IF Len(args) >= 1 THEN args[1] ELSE 0)
        key == buffer_key(idx)
        val == IF key \in DOMAIN cx.vars THEN cx.vars[key] ELSE src_fallback(cx, args)
    IN  Ret(val, Note(cx, Ev("get", idx, key, get(cx, key))))

\* the dispatch without the working coordinate installed
install_st_skipped(cx, coord) == cx

\* the working coordinate installed only when none is there yet
install_st_once(cx, coord) == insert_if_absent(cx, "_st", coord)

\* the working coordinate emit_source installs before dispatching
install_st(cx, coord) == insert(cx, "_st", coord)

emit_source(cx, ty, args, coord) ==
    LET c1 == install_st(cx, coord)
        call == call_args_wrapper(args)
        read == Note(c1, Ev("get", NoId, "_st", get(c1, "_st")))
    IN  CASE ty = "Osc" -> Ret(emit_osc(c1, call), read)
          [] ty = "Noise" -> Ret(emit_noise(c1, call), read)
          [] ty = "Solid" -> Ret(emit_solid(c1, call), c1)
          [] ty = "Gradient" -> Ret(emit_gradient(c1, call), read)
          [] ty = "Shape" -> Ret(emit_shape(c1, call), read)
          [] ty = "Voronoi" -> Ret(emit_voronoi(c1, call), read)
          [] ty = "Src" -> emit_src(c1, args)

(***************************************************************************)
(* Spatial transforms (src/backend/spirv_visitor.rs): coordinate in,       *)
(* coordinate out.  args.get(i).unwrap_or(d) is ArgOr(args, i, d).         *)
(***************************************************************************)
ArgOr(args, i, d) == IF i < Len(args) THEN args[i + 1] ELSE d

scale_coord(coord, sx, sy) == T("scale_coord", <<sx, sy>>, <<coord>>)
kaleid_coord(coord, sides) == T("kaleid_coord", <<sides>>, <<coord>>)
rotate_coord(coord, angle, speed) == T("rotate_coord", <<angle, speed>>, <<coord>>)
\* an axis that is None is left out of k: k lists (axis, amount, speed)
scroll_coord(coord, axes, k) == T("scroll_coord" \o axes, k, <<coord>>)
repeat_coord(coord, rx, ry) == T("repeat_coord", <<rx, ry>>, <<coord>>)
pixelate_coord(coord, sx, sy) == T("pixelate_coord", <<sx, sy>>, <<coord>>)

apply_spatial_transform(ty, args, coord) ==
    CASE ty = "Scale" ->
            LET sx == ArgOr(args, 0, 1000)
            IN  scale_coord(coord, sx, IF Len(args) > 1 THEN args[2] ELSE sx)
      [] ty = "Kaleid" -> kaleid_coord(coord, ArgOr(args, 0, 4000))
      [] ty = "Rotate" -> rotate_coord(coord, ArgOr(args, 0, 0), ArgOr(args, 1, 0))
      [] ty = "ScrollX" -> scroll_coord(coord, "X", <<ArgOr(args, 0, 0), ArgOr(args, 1, 0)>>)
      [] ty = "ScrollY" -> scroll_coord(coord, "Y", <<ArgOr(args, 0, 0), ArgOr(args, 1, 0)>>)
      [] ty = "Scroll" -> scroll_coord(coord, "XY", <<ArgOr(args, 0, 0), ArgOr(args, 1, 0),
                                                       ArgOr(args, 2, 0), ArgOr(args, 3, 0)>>)
      [] ty = "Repeat" ->
            LET rx == ArgOr(args, 0, 3000)
            IN  repeat_coord(coord, rx, ArgOr(args, 1, rx))
      [] ty = "RepeatX" -> repeat_coord(coord, ArgOr(args, 0, 3000), 1000)
      [] ty = "RepeatY" -> repeat_coord(coord, 1000, ArgOr(args, 0, 3000))
      [] ty = "Pixelate" ->
            LET sx == ArgOr(args, 0, 10000)
            IN  pixelate_coord(coord, sx, IF Len(args) > 1 THEN args[2] ELSE sx)

\* the coordinate a modulating binary derives from the modulator colour
displace_coord_from_color(coord, mod_color, amount) ==
    T("displace_coord_from_color", <<amount>>, <<coord, mod_color>>)

scale_coord_from_color(coord, mod_color, amount) ==
    T("scale_coord_from_color", <<amount>>, <<coord, mod_color>>)

(***************************************************************************)
(* Colour operations (src/backend/hydra_effects.rs): colour in, colour out. *)
(***************************************************************************)
emit_unary_color(ty, args, input) ==
    LET call == call_args_wrapper(args)
        A(i, d) == get_arg_or_default(call, i, d)
    IN  CASE ty = "Invert" -> T("invert", <<A(0, 1000)>>, <<input>>)
          [] ty = "Color" -> T("color", <<A(0, 1000), A(1, 1000), A(2, 1000), A(3, 1000)>>, <<input>>)
          [] ty = "Brightness" -> T("brightness", <<A(0, 1000)>>, <<input>>)
          [] ty = "Contrast" -> T("contrast", <<A(0, 1000)>>, <<input>>)
          [] ty = "Saturate" -> T("saturate", <<A(0, 1000)>>, <<input>>)
          [] ty = "Posterize" -> T("posterize", <<A(0, 4000), A(1, 600)>>, <<input>>)
          [] ty = "Thresh" -> T("thresh", <<A(0, 500), A(1, 1000)>>, <<input>>)
          [] ty = "Hue" -> T("hue", <<A(0, 0)>>, <<input>>)
          [] ty = "Colorama" -> T("colorama", <<A(0, 5)>>, <<input>>)
          [] ty = "Luma" -> T("luma", <<>>, <<input>>)
          [] ty = "Shift" -> T("shift", <<A(0, 0), A(1, 0), A(2, 0), A(3, 0)>>, <<input>>)

binary_add(a, b, amount) == T("binary_add", <<amount>>, <<a, b>>)
binary_sub(a, b, amount) == T("binary_sub", <<amount>>, <<a, b>>)
binary_mult(a, b, amount) == T("binary_mult", <<amount>>, <<a, b>>)
binary_blend(a, b, amount) == T("binary_blend", <<amount>>, <<a, b>>)
binary_diff(a, b) == T("binary_diff", <<>>, <<a, b>>)
binary_layer(a, b) == T("binary_layer", <<>>, <<a, b>>)
binary_mask(a, b) == T("binary_mask", <<>>, <<a, b>>)
binary_modulate(a, b, amount) == T("binary_modulate", <<amount>>, <<a, b>>)

\* the amount constant of emit_standard_binary
standard_amount(args) == IF Len(args) >= 1 THEN args[1] ELSE 1000

emit_standard_binary(ty, args, a, b) ==
    LET amount_const == standard_amount(args)
    IN  CASE ty = "Add" -> binary_add(a, b, amount_const)
          [] ty = "Sub" -> binary_sub(a, b, amount_const)
          [] ty = "Mult" -> binary_mult(a, b, amount_const)
          [] ty = "Blend" -> binary_blend(a, b, amount_const)
          [] ty = "Diff" -> binary_diff(a, b)
          [] ty = "Layer" -> binary_layer(a, b)
          [] ty = "Mask" -> binary_mask(a, b)
          [] ty \in {"Modulate", "ModulateScale"} -> binary_modulate(a, b, amount_const)

\* the amount constant of the modulating arm of emit_ir_node
modulate_amount(args) == IF Len(args) >= 1 THEN args[1] ELSE 500

(***************************************************************************)
(* The IR evaluator: SpirvEmitter::emit_ir_node, one operator per match    *)
(* arm.  Each returns [w, vars, log]: the colour (NoWord for None) and the *)
(* context after the call.                                                 *)
(***************************************************************************)
RECURSIVE emit_ir_node(_, _, _, _)

\* a spatial node treated as a colour stand-in: the child keeps the coordinate
emit_spatial_same_coord(cx, ns, n, coord) == emit_ir_node(cx, ns, n.a, coord)

\* IRKind::Spatial
emit_spatial(cx, ns, n, coord) ==
    emit_ir_node(cx, ns, n.a, apply_spatial_transform(n.ty, n.args, coord))

\* IRKind::UnaryColor
emit_unary(cx, ns, n, coord) ==
    LET base == emit_ir_node(cx, ns, n.a, coord)
    IN  IF base.w = NoWord THEN base
        ELSE Ret(emit_unary_color(n.ty, n.args, base.w), Cx(base))

\* the right operand evaluated before the left one
emit_default_binary_right_first(cx, ns, n, coord) ==
    LET b == emit_ir_node(cx, ns, n.b, coord)
        a == emit_ir_node(Cx(b), ns, n.a, coord)
    IN  IF b.w = NoWord THEN b
        ELSE IF a.w = NoWord THEN a
        ELSE Ret(emit_standard_binary(n.ty, n.args, a.w, b.w), Cx(a))

\* the right operand evaluated at the working coordinate the left operand left
\* in `_st`
emit_default_binary_stale(cx, ns, n, coord) ==
    LET a == emit_ir_node(cx, ns, n.a, coord)
        b == emit_ir_node(Cx(a), ns, n.b, get(Cx(a), "_st"))
    IN  IF a.w = NoWord THEN a
        ELSE IF b.w = NoWord THEN b
        ELSE Ret(emit_standard_binary(n.ty, n.args, a.w, b.w), Cx(b))

\* IRKind::Binary, every other BinaryType
emit_default_binary(cx, ns, n, coord) ==
    LET a == emit_ir_node(cx, ns, n.a, coord)
        b == emit_ir_node(Cx(a), ns, n.b, coord)
    IN  IF a.w = NoWord THEN a
        ELSE IF b.w = NoWord THEN b
        ELSE Ret(emit_standard_binary(n.ty, n.args, a.w, b.w), Cx(b))

\* the colour-only path taken for a modulating binary
emit_modulating_post_blend(cx, ns, n, coord) == emit_default_binary(cx, ns, n, coord)

\* IRKind::Binary, BinaryType::Modulate | BinaryType::ModulateScale
emit_modulating_binary(cx, ns, n, coord) ==
    LET m == emit_ir_node(cx, ns, n.b, coord)
        amount == modulate_amount(n.args)
        new_coord == IF n.ty = "ModulateScale"
                     THEN scale_coord_from_color(coord, m.w, amount)
                     ELSE displace_coord_from_color(coord, m.w, amount)
    IN  IF m.w = NoWord THEN m
        ELSE emit_ir_node(Cx(m), ns, n.a, new_coord)

\* the match on ty inside the Binary arm
is_modulating(ty) == ty \in {"Modulate", "ModulateScale"}

\* the buffer keyed by the child's node id
emit_output_by_child(cx, ns, n, coord) ==
    LET c == emit_ir_node(cx, ns, n.a, coord)
    IN  IF c.w = NoWord THEN c
        ELSE Ret(c.w, insert(Cx(c), buffer_key(n.a), c.w))

\* IRKind::Output
emit_output(cx, ns, n, coord) ==
    LET c == emit_ir_node(cx, ns, n.a, coord)
    IN  IF c.w = NoWord THEN c
        ELSE Ret(c.w, insert(Cx(c), buffer_key(n.index), c.w))

emit_ir_node(cx, ns, id, coord) ==
    LET n == NodeAt(ns, id)
        c0 == Note(cx, Ev("enter", id, "", coord))
        r == CASE n.kind = "Source" -> emit_source(c0, n.ty, n.args, coord)
               [] n.kind = "Spatial" -> emit_spatial(c0, ns, n, coord)
               [] n.kind = "UnaryColor" -> emit_unary(c0, ns, n, coord)
               [] n.kind = "Binary" ->
                    IF is_modulating(n.ty) THEN emit_modulating_binary(c0, ns, n, coord)
                    ELSE emit_default_binary(c0, ns, n, coord)
               [] n.kind = "Output" -> emit_output(c0, ns, n, coord)
    IN  Ret(r.w, Note(Cx(r), Ev("exit", id, "", r.w)))

(***************************************************************************)
(* Post-processing of the root colour and the module                       *)
(* (SpirvEmitter::emit_pipeline).                                          *)
(***************************************************************************)
apply_auto_exposure(c) == T("apply_auto_exposure", <<>>, <<c>>)
tone_map_aces(c) == T("tone_map_aces", <<>>, <<c>>)
clamp_vec4(c) == T("clamp_vec4", <<>>, <<c>>)

\* tone mapping applied before the exposure gain
post_process_tone_first(c) == clamp_vec4(apply_auto_exposure(tone_map_aces(c)))

post_process(c) == clamp_vec4(tone_map_aces(apply_auto_exposure(c)))

\* one instruction of the body of main, as far as the model follows it
Ins(op, w) == [op |-> op, w |-> w]

EmptyModule == [functions |-> <<>>, entry_points |-> <<>>, execution_modes |-> <<>>,
                assembled |-> FALSE]

EntryPoint == [model |-> "Fragment", name |-> "main",
               interface |-> <<"FragCoord", "FragColor", "Globals">>]

\* emit_pipeline up to the root colour, as a function of the script body
compile(stmts) ==
    LET b == build_script(<<>>, stmts)
        cx == insert([vars |-> [x \in {} |-> NoWord], log |-> <<>>], "_base_uv", compute_uv)
    IN  IF b.id = NoId THEN [nodes |-> b.nodes, root |-> NoId, w |-> NoWord]
        ELSE [nodes |-> b.nodes, root |-> b.id,
              w |-> emit_ir_node(cx, b.nodes, b.id, cx.vars["_base_uv"]).w]

(***************************************************************************)
(* The colour operations.  A colour is <<r, g, b, a>> of floats.  Each     *)
(* operator below follows the instruction sequence one emitter builds      *)
(* (OpFAdd, OpFSub, OpFMul, OpFDiv, the extended instructions 42 and 39,   *)
(* Floor, OpFOrdLessThan, OpSelect, OpCompositeExtract,                    *)
(* OpCompositeConstruct).                                                  *)
(***************************************************************************)
\* mix(a, b, t) = a * (1 - t) + b * t
mix(a, b, t) ==
    LET one == emit_f32_constant(1000)
        one_minus_t == f_sub(one, t)
        left == f_mul(a, one_minus_t)
        right == f_mul(b, t)
    IN  f_add(left, right)

clamp01(x) == f_min(f_max(x, emit_f32_constant(0)), emit_f32_constant(1000))

emit_luma(c) ==
    LET rg == f_mul(c[1], emit_f32_constant(299))
        gg == f_mul(c[2], emit_f32_constant(587))
        bg == f_mul(c[3], emit_f32_constant(114))
    IN  f_add(f_add(rg, gg), bg)

\* SpirvContext::apply_rgb (spirv_helpers.rs:141-150) with f one of the
\* per-channel maps; alpha is passed on
apply_rgb(c, f(_)) == <<f(c[1]), f(c[2]), f(c[3]), c[4]>>

\* the colour each unary emitter computes from its input colour c
emit_invert(c, amount) ==
    LET one == emit_f32_constant(1000)
    IN  <<mix(c[1], f_sub(one, c[1]), amount), mix(c[2], f_sub(one, c[2]), amount),
          mix(c[3], f_sub(one, c[3]), amount), c[4]>>

emit_color(c, r, g, b, a) == <<f_mul(c[1], r), f_mul(c[2], g), f_mul(c[3], b), f_mul(c[4], a)>>

contrast_amount(c, amount) ==
    LET half == emit_f32_constant(500)
        apply(ch) == f_add(f_mul(f_sub(ch, half), amount), half)
    IN  apply_rgb(c, apply)

\* brightness applied to all four channels
brightness_amount_with_alpha(c, amount) ==
    <<f_mul(c[1], amount), f_mul(c[2], amount), f_mul(c[3], amount), f_mul(c[4], amount)>>

brightness_amount(c, amount) == <<f_mul(c[1], amount), f_mul(c[2], amount), f_mul(c[3], amount), c[4]>>

emit_saturate(c, amt) ==
    LET luma == emit_luma(c)
    IN  <<mix(luma, c[1], amt), mix(luma, c[2], amt), mix(luma, c[3], amt), c[4]>>

emit_thresh(c, threshold, amount) ==
    LET th(ch) == mix(ch, IF f_ord_less_than(ch, threshold) THEN emit_f32_constant(0)
                          ELSE emit_f32_constant(1000), amount)
    IN  <<th(c[1]), th(c[2]), th(c[3]), c[4]>>

emit_luma_effect(c) == LET l == emit_luma(c) IN <<l, l, l, c[4]>>

emit_shift(c, rs, gs, bs, a_shift) ==
    <<clamp01(f_add(c[1], rs)), clamp01(f_add(c[2], gs)), clamp01(f_add(c[3], bs)),
      clamp01(f_add(c[4], a_shift))>>

\* emit_posterize: three apply_rgb passes (safe_pow, emit_quantize, safe_pow).
\* A channel that went through pow is no rational; it is kept as the term of
\* the input channel it was computed from
emit_posterize(c, levels, gamma) ==
    LET restored(ch) == T("posterize", <<levels, gamma>>, <<ch>>)
    IN  apply_rgb(c, restored)

\* hue_rotate: r2, g2, b2 computed from r, g, b and the cosine and sine of the
\* angle, kept as terms; a = extract_component(color, 3)
hue_rotate(c, angle) ==
    <<T("hue_rotate r2", angle, <<c[1], c[2], c[3]>>),
      T("hue_rotate g2", angle, <<c[1], c[2], c[3]>>),
      T("hue_rotate b2", angle, <<c[1], c[2], c[3]>>), c[4]>>

\* the colour a term denotes; defined for the terms built from solid() by the
\* unary operations above, which read neither the coordinate nor the time
RECURSIVE Value(_)
Value(w) ==
    LET K(i) == emit_f32_constant(w.k[i])
    IN  CASE w.op = "solid" -> <<K(1), K(2), K(3), K(4)>>
          [] w.op = "invert" -> emit_invert(Value(w.s[1]), K(1))
          [] w.op = "color" -> emit_color(Value(w.s[1]), K(1), K(2), K(3), K(4))
          [] w.op = "brightness" -> brightness_amount(Value(w.s[1]), K(1))
          [] w.op = "contrast" -> contrast_amount(Value(w.s[1]), K(1))
          [] w.op = "saturate" -> emit_saturate(Value(w.s[1]), K(1))
          [] w.op = "thresh" -> emit_thresh(Value(w.s[1]), K(1), K(2))
          [] w.op = "luma" -> emit_luma_effect(Value(w.s[1]))
          [] w.op = "shift" -> emit_shift(Value(w.s[1]), K(1), K(2), K(3), K(4))
          [] w.op = "posterize" -> emit_posterize(Value(w.s[1]), w.k[1], w.k[2])
          [] w.op = "hue" -> hue_rotate(Value(w.s[1]), <<"angle", w.k[1]>>)
          [] w.op = "colorama" -> hue_rotate(Value(w.s[1]), <<"time * speed", w.k[1]>>)

\* component 3 of the vec4 a term denotes.  apply_auto_exposure,
\* tone_map_aces and clamp_vec4 each extract component 3 of their input and
\* construct their result with it
RECURSIVE Alpha(_)
Alpha(w) ==
    IF w.op \in {"apply_auto_exposure", "tone_map_aces", "clamp_vec4"}
    THEN Alpha(w.s[1])
    ELSE Value(w)[4]

(***************************************************************************)
(* What the coordinate transforms compute at one fragment, in the same     *)
(* arithmetic: a coordinate is <<x, y>>, uv the fragment's base            *)
(* coordinate and time the Globals time.  The `_value` operators follow    *)
(* the instruction sequences of the `_coord` emitters of                   *)
(* src/backend/spirv_visitor.rs.                                           *)
(***************************************************************************)
\* fract(x) = x - floor(x)
emit_fract(x) == f_sub(x, emit_glsl_floor(x))

\* GLSL.std.450 Sin (13) and Cos (14); the model evaluates them at the angle
\* 0 only, where the sine is the angle itself and the cosine is 1
emit_glsl_sin(a) == CASE IsFZero(a) -> a
emit_glsl_cos(a) == CASE IsFZero(a) -> f32_of_int(1)

\* the f32 literals 1e-6 and 0.0001 of the compiler
Millionth == f_div(f32_of_int(1), f32_of_int(Unit * Unit))
TenThousandth == f_div(f32_of_int(1), f32_of_int(10 * Unit))

\* emit_f32_constant(1.0 / s.max(1e-6)) for s written in thousandths
inv_scale(s) == f_div(f32_of_int(1), f32_max(emit_f32_constant(s), Millionth))

\* the scale applied about the origin instead of the centre
scale_coord_value_uncentred(p, sx, sy) ==
    LET half == emit_f32_constant(500)
    IN  <<f_add(f_mul(p[1], inv_scale(sx)), half), f_add(f_mul(p[2], inv_scale(sy)), half)>>

scale_coord_value(p, sx, sy) ==
    LET half == emit_f32_constant(500)
        x_c == f_sub(p[1], half)
        y_c == f_sub(p[2], half)
        x_s == f_mul(x_c, inv_scale(sx))
        y_s == f_mul(y_c, inv_scale(sy))
    IN  <<f_add(x_s, half), f_add(y_s, half)>>

rotate_coord_value(p, angle, speed, time) ==
    LET time_term == f_mul(time, emit_f32_constant(speed))
        total == f_add(emit_f32_constant(angle), time_term)
        half == emit_f32_constant(500)
        x_c == f_sub(p[1], half)
        y_c == f_sub(p[2], half)
        cos_a == emit_glsl_cos(total)
        sin_a == emit_glsl_sin(total)
        x_prime == f_sub(f_mul(x_c, cos_a), f_mul(y_c, sin_a))
        y_prime == f_add(f_mul(x_c, sin_a), f_mul(y_c, cos_a))
    IN  <<f_add(x_prime, half), f_add(y_prime, half)>>

\* shift_axis of scroll_coord: amt and spd are <<>> for None, <<v>> for Some(v)
shift_axis(val, amt, spd, time) ==
    LET a == IF amt = <<>> THEN val ELSE f_add(val, emit_f32_constant(amt[1]))
        out == IF spd = <<>> THEN a
               ELSE f_add(a, f_mul(time, emit_f32_constant(spd[1])))
    IN  f_sub(out, emit_glsl_floor(out))

scroll_coord_value(p, ax, ay, sx, sy, time) ==
    <<shift_axis(p[1], ax, sx, time), shift_axis(p[2], ay, sy, time)>>

\* rx.max(0.0001) for rx written in thousandths
repeat_count(r) == f32_max(emit_f32_constant(r), TenThousandth)

repeat_coord_value(p, rx, ry) ==
    <<emit_fract(f_mul(p[1], repeat_count(rx))), emit_fract(f_mul(p[2], repeat_count(ry)))>>

\* sx.max(1.0) for sx written in thousandths
pixel_count(s) == f32_max(emit_f32_constant(s), f32_of_int(1))

pixelate_coord_value(p, sx, sy) ==
    LET half == emit_f32_constant(500)
        axis(v, c) == f_add(f_div(emit_glsl_floor(f_mul(v, c)), c), f_div(half, c))
    IN  <<axis(p[1], pixel_count(sx)), axis(p[2], pixel_count(sy))>>

\* the displacement left unclamped
displace_coord_value_unclamped(p, c, amount) ==
    LET half == emit_f32_constant(500)
    IN  <<f_add(p[1], f_mul(f_sub(c[1], half), amount)),
          f_add(p[2], f_mul(f_sub(c[2], half), amount))>>

displace_coord_value(p, c, amount) ==
    LET half == emit_f32_constant(500)
        r_scaled == f_mul(f_sub(c[1], half), amount)
        g_scaled == f_mul(f_sub(c[2], half), amount)
    IN  <<clamp01(f_add(p[1], r_scaled)), clamp01(f_add(p[2], g_scaled))>>

scale_coord_from_color_value(p, c, amount) ==
    LET l_scaled == f_mul(emit_luma(c), amount)
        one == emit_f32_constant(1000)
        factor == f_add(one, l_scaled)
        half == emit_f32_constant(500)
        inv_factor == f_div(one, factor)
    IN  <<f_add(f_mul(f_sub(p[1], half), inv_factor), half),
          f_add(f_mul(f_sub(p[2], half), inv_factor), half)>>

\* the coordinate a coordinate term denotes at the fragment uv at time time;
\* defined for the terms whose modulator colours Value is defined for
RECURSIVE CoordValue(_, _, _)
CoordValue(w, uv, time) ==
    LET p == CoordValue(w.s[1], uv, time)
        none == <<>>
    IN  CASE w.op = "uv" -> uv
          [] w.op = "scale_coord" -> scale_coord_value(p, w.k[1], w.k[2])
          [] w.op = "rotate_coord" -> rotate_coord_value(p, w.k[1], w.k[2], time)
          [] w.op = "scroll_coordX" ->
                scroll_coord_value(p, <<w.k[1]>>, none, <<w.k[2]>>, none, time)
          [] w.op = "scroll_coordY" ->
                scroll_coord_value(p, none, <<w.k[1]>>, none, <<w.k[2]>>, time)
          [] w.op = "scroll_coordXY" ->
                scroll_coord_value(p, <<w.k[1]>>, <<w.k[2]>>, <<w.k[3]>>, <<w.k[4]>>, time)
          [] w.op = "repeat_coord" -> repeat_coord_value(p, w.k[1], w.k[2])
          [] w.op = "pixelate_coord" -> pixelate_coord_value(p, w.k[1], w.k[2])
          [] w.op = "displace_coord_from_color" ->
                displace_coord_value(p, Value(w.s[2]), emit_f32_constant(w.k[1]))
          [] w.op = "scale_coord_from_color" ->
                scale_coord_from_color_value(p, Value(w.s[2]), emit_f32_constant(w.k[1]))

(***************************************************************************)
(* The scripts the model compiles.                                         *)
(***************************************************************************)
Gradient0 == SourceCall("gradient", <<>>)
Solid2 == SourceCall("solid", <<Num(250), Num(500)>>)
Src0 == SourceCall("src", <<Num(0)>>)
Src1 == SourceCall("src", <<Num(1000)>>)

\* the calls a chain starts with; foo is no source
Heads == {Gradient0, Solid2, Src0, SourceCall("foo", <<>>)}

\* [name, args] of the methods without an operand chain
SimpleMethods ==
    {<<"rotate", <<Num(500)>>>>, <<"scale", <<Num(2000)>>>>, <<"invert", <<>>>>,
     <<"out", <<Num(0)>>>>, <<"out", <<Num(1000)>>>>, <<"noSuchMethod", <<>>>>}

Solid1Out0 == MethodCall(SourceCall("solid", <<Num(750)>>), "out", <<Num(0)>>)

\* right operands of binary calls in chains of every kind of method
GeneralRights == {Src0, MethodCall(Gradient0, "rotate", <<Num(250)>>), Solid1Out0,
                  SourceCall("foo", <<>>)}

\* right operands of the chains with one binary call of every kind
Rights == {Src0, Src1, MethodCall(SourceCall("osc", <<Num(30000)>>), "scale", <<Num(2000)>>),
           Solid1Out0, MethodCall(Solid1Out0, "blend", <<Src0>>)}

\* what follows the right operand in a binary call
Amounts == {<<>>, <<Num(1000)>>, <<Num(500)>>}

BinaryNames == {"add", "sub", "mult", "blend", "diff", "layer", "mask",
                "modulate", "modulateScale"}

BinaryMethods(names, rights, amounts) ==
    {<<n, <<r>> \o a>> : n \in names, r \in rights, a \in amounts}

RECURSIVE Chains(_, _, _)
Chains(heads, methods, n) ==
    IF n = 0 THEN heads
    ELSE LET shorter == Chains(heads, methods, n - 1)
         IN  shorter \cup {MethodCall(c, m[1], m[2]) : c \in shorter, m \in methods}

\* chains mixing every kind of method
GeneralChains ==
    Chains(Heads,
           SimpleMethods \cup BinaryMethods({"add", "modulate"}, GeneralRights, {<<>>, <<Num(500)>>}),
           MaxChain)

\* one binary call of every kind on a short left chain
BinaryChains ==
    {MethodCall(l, m[1], m[2]) :
        l \in Chains({Gradient0, Solid2},
                     {<<"rotate", <<Num(500)>>>>, <<"out", <<Num(0)>>>>, <<"out", <<Num(1000)>>>>},
                     MaxChain),
        m \in BinaryMethods(BinaryNames, Rights, Amounts)}

\* a literal whose float is the next integer: 32768.999 is 32769.0 as f32
FarIndex == 2^15 * Unit + 999

\* solid(0.75).out(i).op(src(32768.999)) for i = 32768.999 and i = 32769
FarChains ==
    {MethodCall(MethodCall(SourceCall("solid", <<Num(750)>>), "out", <<Num(i)>>), m,
                <<SourceCall("src", <<Num(FarIndex)>>)>>) :
        i \in {FarIndex, FarIndex + 1}, m \in {"add", "modulate"}}

\* gradient().out(0).op(solid(0.75).out(0).m(src(j))): under add the buffer
\* holds the gradient when the inner src is evaluated, under modulate nothing
EarlierChains ==
    {MethodCall(MethodCall(Gradient0, "out", <<Num(0)>>), op,
                <<MethodCall(Solid1Out0, m, <<s>>)>>) :
        op \in {"add", "modulate"}, m \in {"add", "modulate", "modulateScale"},
        s \in {Src0, Src1}}

Scripts ==
    {<<ExprStmt(c)>> : c \in GeneralChains \cup BinaryChains \cup FarChains \cup EarlierChains}

(***************************************************************************)
(* emit_pipeline as a state machine.                                       *)
(***************************************************************************)
Init ==
    /\ script \in Scripts
    /\ pc = "start"
    /\ nodes = <<>>
    /\ root = NoId
    /\ variables = [x \in {} |-> NoWord]
    /\ log = <<>>
    /\ color = NoWord
    /\ body = <<>>
    /\ module = EmptyModule
    /\ device = NoDevice

\* IRBuilder::new() and build_script
BuildIr ==
    /\ pc = "start"
    /\ LET r == build_script(<<>>, script)
       IN  nodes' = r.nodes /\ root' = r.id
    /\ pc' = "built"
    /\ UNCHANGED <<script, variables, log, color, body, module, device>>

\* begin_function, begin_block, compute_uv, variables.insert("_base_uv", uv)
BeginMain ==
    /\ pc = "built"
    /\ LET cx == insert([vars |-> variables, log |-> log], "_base_uv", compute_uv)
       IN  variables' = cx.vars /\ log' = cx.log
    /\ pc' = "main"
    /\ UNCHANGED <<script, nodes, root, color, body, module, device>>

\* emit_ir_node on the root, post-processing, the store to FragColor
EmitRoot ==
    /\ pc = "main"
    /\ IF root = NoId
       THEN UNCHANGED <<variables, log, color, body>>
       ELSE LET r == emit_ir_node([vars |-> variables, log |-> log], nodes, root,
                                  variables["_base_uv"])
            IN  /\ variables' = r.vars
                /\ log' = r.log
                /\ color' = r.w
                /\ body' = IF r.w = NoWord THEN body
                           ELSE Append(body, Ins("Store", post_process(r.w)))
    /\ pc' = "emitted"
    /\ UNCHANGED <<script, nodes, root, module, device>>

\* the entry point declared only when a colour was stored
EndMain_only_with_color ==
    /\ pc = "emitted"
    /\ body' = Append(body, Ins("Return", NoWord))
    /\ module' = IF color = NoWord
                 THEN [module EXCEPT !.functions = Append(module.functions, "main"),
                                     !.assembled = TRUE]
                 ELSE [functions |-> Append(module.functions, "main"),
                       entry_points |-> Append(module.entry_points, EntryPoint),
                       execution_modes |-> Append(module.execution_modes, "OriginUpperLeft"),
                       assembled |-> TRUE]
    /\ device' \in Devices
    /\ pc' = "done"
    /\ UNCHANGED <<script, nodes, root, variables, log, color>>

\* ret, end_function, entry_point, execution_mode, assemble; the assembled
\* module is what a device runs
EndMain ==
    /\ pc = "emitted"
    /\ body' = Append(body, Ins("Return", NoWord))
    /\ module' = [functions |-> Append(module.functions, "main"),
                  entry_points |-> Append(module.entry_points, EntryPoint),
                  execution_modes |-> Append(module.execution_modes, "OriginUpperLeft"),
                  assembled |-> TRUE]
    /\ device' \in Devices
    /\ pc' = "done"
    /\ UNCHANGED <<script, nodes, root, variables, log, color>>

Next == BuildIr \/ BeginMain \/ EmitRoot \/ EndMain

Spec == Init /\ [][Next]_vars

(***************************************************************************)
(* Scripts that vary the argument lists of one call: literals, other       *)
(* expressions and calls at every position, for sources, spatial, colour,  *)
(* output and binary methods and for the modulate synonyms of the operator *)
(* table.                                                                  *)
(***************************************************************************)
\* the expressions an argument position holds
ArgValues == {Num(500), Num(2000), Str("x"), Gradient0}

RECURSIVE ArgLists(_)
ArgLists(n) ==
    IF n = 0 THEN {<<>>}
    ELSE LET shorter == ArgLists(n - 1)
         IN  shorter \cup {Append(l, a) : l \in {x \in shorter : Len(x) = n - 1}, a \in ArgValues}

ModulateSynonyms == {"modulateRotate", "modulateRepeat", "modulatePixelate", "modulateHue",
                     "modulateKaleid", "modulateScrollX", "modulateScrollY"}

\* the heads and the method names whose argument lists vary
ArgHeads == {"osc", "solid", "shape"}
ArgMethodNames == {"scale", "rotate", "scroll", "invert", "color", "posterize", "out"}
                  \cup BinaryNames \cup ModulateSynonyms

\* the chains the methods are called on; foo().rotate(0.5) does not build
ArgReceivers == {SourceCall("osc", <<Num(30000)>>),
                 MethodCall(Gradient0, "rotate", <<Num(500)>>),
                 MethodCall(SourceCall("foo", <<>>), "rotate", <<Num(500)>>)}

ArgChains ==
    {SourceCall(h, l) : h \in ArgHeads, l \in ArgLists(MaxArgs)}
    \cup {MethodCall(x, m, l) : x \in ArgReceivers, m \in ArgMethodNames, l \in ArgLists(MaxArgs)}

\* the right operands of the binary calls whose later arguments vary
ArgRights == {MethodCall(SourceCall("osc", <<Num(30000)>>), "scale", <<Num(2000)>>),
              SourceCall("foo", <<>>)}

ArgBinaryChains ==
    {MethodCall(x, m, <<r>> \o l) :
        x \in ArgReceivers, m \in BinaryNames, r \in ArgRights, l \in ArgLists(MaxArgs - 1)}

ArgScripts == {<<ExprStmt(c)>> : c \in ArgChains \cup ArgBinaryChains}

InitArgs ==
    /\ script \in ArgScripts
    /\ pc = "start"
    /\ nodes = <<>>
    /\ root = NoId
    /\ variables = [x \in {} |-> NoWord]
    /\ log = <<>>
    /\ color = NoWord
    /\ body = <<>>
    /\ module = EmptyModule
    /\ device = NoDevice

SpecArgs == InitArgs /\ [][Next]_vars

TypeOK ==
    /\ pc \in {"start", "built", "main", "emitted", "done"}
    /\ root \in {NoId} \cup (0 .. Len(nodes) - 1)

(***************************************************************************)
(* Scripts of any shape: no statement at all, statements that are no       *)
(* expression, expressions that are no chain, calls through a computed     *)
(* member or a callee that is no name, unknown names, missing and          *)
(* non-literal arguments, nested to depth MaxNest.                         *)
(***************************************************************************)
\* the innermost expressions
AnyHeads ==
    {Num(500), Ident("x"), Call(Str("f"), <<>>)}
    \cup {SourceCall(n, a) : n \in {"osc", "src", "foo"},
                             a \in {<<>>, <<Num(1000)>>, <<Ident("x")>>}}

\* [name, args] of the calls made on an expression; "" is a computed member
AnyMethods ==
    {<<"rotate", <<Num(500)>>>>, <<"rotate", <<Ident("x")>>>>,
     <<"out", <<>>>>, <<"out", <<Num(1000)>>>>,
     <<"add", <<SourceCall("osc", <<Num(30000)>>)>>>>,
     <<"add", <<SourceCall("foo", <<>>), Num(500)>>>>,
     <<"add", <<Num(500)>>>>,
     <<"modulate", <<MethodCall(Src1, "out", <<Num(1000)>>), Ident("x")>>>>,
     <<"foo", <<SourceCall("osc", <<>>)>>>>,
     <<"", <<>>>>}

RECURSIVE AnyExprs(_)
AnyExprs(n) ==
    IF n = 0 THEN AnyHeads
    ELSE LET inner == AnyExprs(n - 1)
         IN  inner \cup {Member(e, "x") : e \in inner}
                   \cup {MethodCall(e, m[1], m[2]) : e \in inner, m \in AnyMethods}

AnyScripts ==
    {<<>>, <<EmptyStmt>>, <<EmptyStmt, EmptyStmt>>}
    \cup {<<ExprStmt(e)>> : e \in AnyExprs(MaxNest)}
    \cup {<<EmptyStmt, ExprStmt(e)>> : e \in AnyExprs(1)}

InitAny ==
    /\ script \in AnyScripts
    /\ pc = "start"
    /\ nodes = <<>>
    /\ root = NoId
    /\ variables = [x \in {} |-> NoWord]
    /\ log = <<>>
    /\ color = NoWord
    /\ body = <<>>
    /\ module = EmptyModule
    /\ device = NoDevice

SpecAny == InitAny /\ [][Next]_vars

(***************************************************************************)
(* Scripts that compute constant colours: solid(r, g, b, a) with channels  *)
(* inside and outside [0, 1], followed by up to MaxOps unary colour        *)
(* operations.                                                             *)
(***************************************************************************)
\* r, g, b of the solids
RgbTriples == {<<0, 0, 0>>, <<250, 1000, -500>>, <<1000, 1000, 1000>>, <<2000, 250, 0>>,
               <<-500, -500, 250>>, <<500, 0, 1000>>}
AlphaLevels == {-500, 0, 250, 1000, 2000}

Solids == {SourceCall("solid", <<Num(c[1]), Num(c[2]), Num(c[3]), Num(a)>>) :
              c \in RgbTriples, a \in AlphaLevels}

ColourMethods ==
    {<<"invert", <<Num(0)>>>>, <<"invert", <<>>>>, <<"invert", <<Num(500)>>>>,
     <<"brightness", <<Num(1000)>>>>, <<"brightness", <<Num(2000)>>>>,
     <<"contrast", <<Num(1000)>>>>, <<"contrast", <<Num(500)>>>>,
     <<"saturate", <<Num(1000)>>>>, <<"saturate", <<Num(0)>>>>,
     <<"color", <<Num(1000), Num(1000), Num(1000), Num(500)>>>>,
     <<"color", <<Num(500), Num(2000), Num(1000), Num(2000)>>>>,
     <<"thresh", <<>>>>, <<"thresh", <<Num(90), Num(1000)>>>>, <<"luma", <<>>>>,
     <<"shift", <<Num(0), Num(0), Num(0), Num(500)>>>>}

\* colours off the binary grid: 0.1 and 0.1 * 0.9 are rounded
Dim == SourceCall("solid", <<Num(100), Num(100), Num(100)>>)
Dimmed == MethodCall(Dim, "brightness", <<Num(900)>>)

ColourScripts ==
    {<<ExprStmt(c)>> : c \in Chains(Solids \cup {Dim, Dimmed}, ColourMethods, MaxOps)}

InitColour ==
    /\ script \in ColourScripts
    /\ pc = "start"
    /\ nodes = <<>>
    /\ root = NoId
    /\ variables = [x \in {} |-> NoWord]
    /\ log = <<>>
    /\ color = NoWord
    /\ body = <<>>
    /\ module = EmptyModule
    /\ device = NoDevice

SpecColour == InitColour /\ [][Next]_vars

(***************************************************************************)
(* Scripts of up to MaxStmts statements: empty statements, expressions     *)
(* that build no root, chains that write a buffer and chains that read it. *)
(***************************************************************************)
Statements ==
    {EmptyStmt, ExprStmt(Num(500)), ExprStmt(SourceCall("foo", <<>>)),
     ExprStmt(Solid1Out0), ExprStmt(Src0),
     ExprStmt(MethodCall(SourceCall("osc", <<Num(30000)>>), "rotate", <<Num(500)>>))}

RECURSIVE StmtLists(_)
StmtLists(n) ==
    IF n = 0 THEN {<<>>}
    ELSE LET shorter == StmtLists(n - 1)
         IN  shorter \cup {Append(l, x) : l \in {k \in shorter : Len(k) = n - 1}, x \in Statements}

InitStmts ==
    /\ script \in StmtLists(MaxStmts)
    /\ pc = "start"
    /\ nodes = <<>>
    /\ root = NoId
    /\ variables = [x \in {} |-> NoWord]
    /\ log = <<>>
    /\ color = NoWord
    /\ body = <<>>
    /\ module = EmptyModule
    /\ device = NoDevice

SpecStmts == InitStmts /\ [][Next]_vars

(***************************************************************************)
(* Scripts about buffers and the working coordinate: a chain that writes a *)
(* buffer under spatial transforms combined with a chain that reads one,   *)
(* or reads `_st`, under up to MaxOps operations of its own.               *)
(***************************************************************************)
BufWriters ==
    {MethodCall(Gradient0, "out", <<Num(0)>>),
     MethodCall(MethodCall(Gradient0, "rotate", <<Num(500)>>), "out", <<Num(0)>>),
     MethodCall(MethodCall(Gradient0, "out", <<Num(0)>>), "rotate", <<Num(500)>>),
     MethodCall(Gradient0, "out", <<Num(1000)>>), Solid1Out0}

BufReaders ==
    Chains({Src0, Src1, Gradient0},
           {<<"rotate", <<Num(500)>>>>, <<"scale", <<Num(2000)>>>>, <<"invert", <<>>>>}, MaxOps)

BufScripts ==
    {<<ExprStmt(MethodCall(w, m, <<r>>))>> :
        w \in BufWriters, r \in BufReaders, m \in {"add", "layer", "modulate"}}
    \cup {<<ExprStmt(MethodCall(r, m, <<w, Num(500)>>))>> :
            w \in BufWriters, r \in BufReaders, m \in {"modulate", "modulateScale", "blend"}}

InitBuf ==
    /\ script \in BufScripts
    /\ pc = "start"
    /\ nodes = <<>>
    /\ root = NoId
    /\ variables = [x \in {} |-> NoWord]
    /\ log = <<>>
    /\ color = NoWord
    /\ body = <<>>
    /\ module = EmptyModule
    /\ device = NoDevice

SpecBuf == InitBuf /\ [][Next]_vars

(***************************************************************************)
(* Scripts that apply one unary colour operation, with and without         *)
(* arguments, to a constant colour: a solid followed by up to MaxOps       *)
(* operations that change alpha or leave it.                               *)
(***************************************************************************)
AlphaSolids ==
    {SourceCall("solid", <<Num(250), Num(1000), Num(-500), Num(a)>>) : a \in AlphaLevels}
    \cup {SourceCall("solid", <<Num(2000), Num(250)>>)}

\* what precedes the operation
AlphaPrefixes ==
    {<<"color", <<Num(500), Num(2000), Num(1000), Num(2000)>>>>,
     <<"shift", <<Num(0), Num(0), Num(0), Num(500)>>>>, <<"invert", <<>>>>}

\* the operation, of every UnaryColorType
UnaryMethods ==
    {<<"invert", <<>>>>, <<"invert", <<Num(500)>>>>, <<"brightness", <<Num(2000)>>>>,
     <<"contrast", <<Num(500)>>>>, <<"saturate", <<Num(0)>>>>,
     <<"posterize", <<>>>>, <<"posterize", <<Num(3000), Num(500)>>>>,
     <<"thresh", <<>>>>, <<"thresh", <<Num(250), Num(500)>>>>,
     <<"hue", <<Num(250)>>>>, <<"colorama", <<>>>>, <<"luma", <<>>>>,
     <<"color", <<>>>>, <<"color", <<Num(500), Num(2000), Num(1000), Num(2000)>>>>,
     <<"color", <<Num(1000), Num(1000), Num(1000), Num(-500)>>>>,
     <<"shift", <<>>>>, <<"shift", <<Num(0), Num(0), Num(0), Num(500)>>>>,
     <<"shift", <<Num(100), Num(0), Num(0), Num(-2000)>>>>}

AlphaScripts ==
    {<<ExprStmt(MethodCall(c, m[1], m[2]))>> :
        c \in Chains(AlphaSolids, AlphaPrefixes, MaxOps), m \in UnaryMethods}

InitAlpha ==
    /\ script \in AlphaScripts
    /\ pc = "start"
    /\ nodes = <<>>
    /\ root = NoId
    /\ variables = [x \in {} |-> NoWord]
    /\ log = <<>>
    /\ color = NoWord
    /\ body = <<>>
    /\ module = EmptyModule
    /\ device = NoDevice

SpecAlpha == InitAlpha /\ [][Next]_vars

(***************************************************************************)
(* Scripts about coordinates: a source followed by up to MaxOps + 1        *)
(* identity transforms, modulations by constant colours and colour         *)
(* operations, the last of them possibly a transform that moves the        *)
(* coordinate.  The last call of a chain transforms the coordinate first:  *)
(* scale(0.5) sends the unit square to [-0.5, 1.5)^2, so the calls before  *)
(* it in the chain receive coordinates outside [0, 1)^2; scrollX and       *)
(* pixelate hand them coordinates off the binary grid.                     *)
(***************************************************************************)
CoordHeads == {SourceCall("osc", <<Num(30000)>>), Src0}

\* the modulator colours: constant, so Value is defined for them
Modulators == {SourceCall("solid", <<Num(250), Num(1000), Num(-500)>>), Solid1Out0}

White == SourceCall("solid", <<Num(1000), Num(1000), Num(1000)>>)

CoordMethods ==
    {<<"scale", <<Num(1000), Num(1000)>>>>, <<"rotate", <<Num(0), Num(0)>>>>,
     <<"repeat", <<Num(1000), Num(1000)>>>>,
     <<"invert", <<>>>>}
    \cup BinaryMethods({"modulate", "modulateScale"}, Modulators, {<<Num(0)>>})
    \cup BinaryMethods({"modulate"}, {White}, {<<Num(1000)>>})
    \cup BinaryMethods({"modulateScale"}, {White}, {<<Num(-1000)>>})

\* the transforms that move the coordinate the calls before them receive
MovingMethods ==
    {<<"scale", <<Num(500)>>>>, <<"scrollX", <<Num(400), Num(900)>>>>,
     <<"pixelate", <<Num(5000)>>>>}

\* a colour-only binary closing the chain: its src(0) is evaluated after
\* every call before it in the chain, the modulators of those calls included
ReadingMethods == {<<"add", <<Src0>>>>}

CoordScripts ==
    {<<ExprStmt(c)>> : c \in Chains(CoordHeads, CoordMethods, MaxOps + 1)}
    \cup {<<ExprStmt(MethodCall(c, m[1], m[2]))>> :
            c \in Chains(CoordHeads, CoordMethods, MaxOps),
            m \in MovingMethods \cup ReadingMethods}

InitCoord ==
    /\ script \in CoordScripts
    /\ pc = "start"
    /\ nodes = <<>>
    /\ root = NoId
    /\ variables = [x \in {} |-> NoWord]
    /\ log = <<>>
    /\ color = NoWord
    /\ body = <<>>
    /\ module = EmptyModule
    /\ device = NoDevice

SpecCoord == InitCoord /\ [][Next]_vars

\* compute_uv: FragCoord.xy divided by (width, height), all in thousandths
compute_uv_value(x, y, width, height) ==
    <<f_div(emit_f32_constant(x), emit_f32_constant(width)),
      f_div(emit_f32_constant(y), emit_f32_constant(height))>>

\* the fragments the emitted code is evaluated at: the base coordinates
\* (1/4, 3/4), (1/2, 1/2), (1/8, 7/8) and, in a target five fragments wide,
\* the floats nearest to (1/10, 7/10)
UvQuarter == compute_uv_value(500, 1500, 2000, 2000)
UvCentre == compute_uv_value(500, 500, 1000, 1000)
UvEighth == compute_uv_value(500, 3500, 4000, 4000)
UvTenth == compute_uv_value(500, 3500, 5000, 5000)

\* the times the emitted code is evaluated at
Start == emit_f32_constant(0)
Later == emit_f32_constant(1500)

\* [uv, time] of the evaluations
Samples == {[uv |-> UvQuarter, time |-> Later], [uv |-> UvCentre, time |-> Start],
            [uv |-> UvEighth, time |-> Later], [uv |-> UvTenth, time |-> Start]}

(***************************************************************************)
(* Reading the evaluation record.                                          *)
(***************************************************************************)
Emitted == pc \in {"emitted", "done"}

Ids == 0 .. Len(nodes) - 1

\* positions of the log where emit_ir_node is entered on a node of this kind
EntersOf(kinds) ==
    {p \in 1 .. Len(log) : log[p].ev = "enter" /\ NodeAt(nodes, log[p].id).kind \in kinds}

\* the position where the call entered at p returns
ExitIdx(p) ==
    CHOOSE q \in p + 1 .. Len(log) :
        /\ log[q].ev = "exit" /\ log[q].id = log[p].id
        /\ \A r \in p + 1 .. q - 1 : ~(log[r].ev = "exit" /\ log[r].id = log[p].id)

\* the node entered at p
NodeOf(p) == NodeAt(nodes, log[p].id)

\* the node that references id as child, left or right
Parent(id) == CHOOSE p \in Ids : NodeAt(nodes, p).a = id \/ NodeAt(nodes, p).b = id

(***************************************************************************)
(* C1.  A Modulate or ModulateScale node evaluated at coordinate c          *)
(* evaluates its right subtree first, at c; derives a new coordinate from   *)
(* c, the modulator colour and the amount; then evaluates its left subtree  *)
(* exactly once, at the new coordinate and never at c; and returns exactly  *)
(* the colour of that left evaluation.  The colour-only binary_modulate is  *)
(* never emitted.                                                          *)
(***************************************************************************)
ModulatingAt(p) ==
    LET n == NodeOf(p)
        c == log[p].w
        q == ExitIdx(p)
        lefts == {i \in p + 1 .. q - 1 : log[i].ev = "enter" /\ log[i].id = n.a}
    IN  /\ log[p + 1] = Ev("enter", n.b, "", c)
        /\ Cardinality(lefts) = 1
        /\ \A l \in lefts :
              /\ log[l - 1].ev = "exit" /\ log[l - 1].id = n.b
              /\ log[l].w # c
              /\ log[l].w.op = (IF n.ty = "ModulateScale" THEN "scale_coord_from_color"
                                ELSE "displace_coord_from_color")
              /\ log[l].w.s = <<c, log[l - 1].w>>
              /\ Len(n.args) >= 1 => log[l].w.k = <<n.args[1]>>
        /\ log[q - 1] = Ev("exit", n.a, "", log[q].w)
        /\ log[q].w.op # "binary_modulate"

C1_ModulateResamplesLeft ==
    \A p \in EntersOf({"Binary"}) :
        NodeOf(p).ty \in {"Modulate", "ModulateScale"} => ModulatingAt(p)

\* a ModulateScale whose left operand starts with a spatial transform
C1_Witness ==
    /\ pc = "done"
    /\ \E p \in EntersOf({"Binary"}) :
          /\ NodeOf(p).ty = "ModulateScale"
          /\ NodeAt(nodes, NodeOf(p).a).kind = "Spatial"
          /\ color # NoWord

(***************************************************************************)
(* C2.  A colour-only Binary node (Add, Sub, Mult, Blend, Diff, Layer,      *)
(* Mask) evaluated at coordinate c evaluates left at c, then right at c,    *)
(* and only then combines the two colours; a spatial transform inside one   *)
(* operand does not change the coordinate of the other.                     *)
(***************************************************************************)
ColourOnlyAt(p) ==
    LET n == NodeOf(p)
        c == log[p].w
        q == ExitIdx(p)
        ql == ExitIdx(p + 1)
        qr == ExitIdx(ql + 1)
    IN  /\ log[p + 1] = Ev("enter", n.a, "", c)
        /\ log[ql + 1] = Ev("enter", n.b, "", c)
        /\ q = qr + 1
        /\ log[q].w.s = <<log[ql].w, log[qr].w>>

C2_ColourBinarySameCoord ==
    \A p \in EntersOf({"Binary"}) :
        NodeOf(p).ty \in {"Add", "Sub", "Mult", "Blend", "Diff", "Layer", "Mask"}
            => ColourOnlyAt(p)

\* a colour-only binary whose left operand is spatially transformed
C2_Witness ==
    /\ pc = "done"
    /\ \E p \in EntersOf({"Binary"}) :
          /\ NodeOf(p).ty = "Mask"
          /\ NodeAt(nodes, NodeOf(p).a).kind = "Spatial"
          /\ color # NoWord

(***************************************************************************)
(* C3.  A Spatial node evaluated at c evaluates its child at               *)
(* transform(c, args) and returns the child's colour unchanged; a          *)
(* UnaryColor node evaluated at c evaluates its child at c.  So a source   *)
(* below a chain of spatial and colour operations receives the base UV     *)
(* with the spatial transforms of the path applied from the root inwards.  *)
(***************************************************************************)
RECURSIVE PureChain(_), ChainCoord(_)

\* every node above id is a Spatial or a UnaryColor
PureChain(id) ==
    id = root \/ (/\ NodeAt(nodes, Parent(id)).kind \in {"Spatial", "UnaryColor"}
                  /\ PureChain(Parent(id)))

\* the base UV transformed by the spatial nodes from the root down to id
ChainCoord(id) ==
    IF id = root THEN compute_uv
    ELSE LET n == NodeAt(nodes, Parent(id))
         IN  IF n.kind = "Spatial"
             THEN apply_spatial_transform(n.ty, n.args, ChainCoord(Parent(id)))
             ELSE ChainCoord(Parent(id))

C3_CoordinateThreading ==
    /\ \A p \in EntersOf({"Spatial"}) :
          LET n == NodeOf(p)
              q == ExitIdx(p)
          IN  /\ log[p + 1] = Ev("enter", n.a, "", apply_spatial_transform(n.ty, n.args, log[p].w))
              /\ log[p + 1].w # log[p].w
              /\ log[q - 1] = Ev("exit", n.a, "", log[q].w)
    /\ \A p \in EntersOf({"UnaryColor"}) :
          log[p + 1] = Ev("enter", NodeOf(p).a, "", log[p].w)
    /\ \A p \in EntersOf({"Source"}) :
          PureChain(log[p].id) => log[p].w = ChainCoord(log[p].id)

\* gradient().rotate(0.5).scale(2): the source is sampled at the base UV
\* scaled first and rotated second
C3_Witness ==
    /\ pc = "done"
    /\ Len(nodes) = 3
    /\ nodes[2].kind = "Spatial" /\ nodes[2].ty = "Rotate"
    /\ nodes[3].kind = "Spatial" /\ nodes[3].ty = "Scale"
    /\ \E p \in EntersOf({"Source"}) :
          log[p].w = rotate_coord(scale_coord(compute_uv, 2000, 2000), 500, 0)

(***************************************************************************)
(* C4.  After build_script, whether it returned a root or none, every node *)
(* of the arena references only nodes with strictly smaller ids.           *)
(***************************************************************************)
C4_ChildrenBelow ==
    \A id \in Ids :
        LET n == NodeAt(nodes, id)
        IN  /\ n.kind \in {"Spatial", "UnaryColor", "Output"} => (0 <= n.a /\ n.a < id)
            /\ n.kind = "Binary" => (0 <= n.a /\ n.a < id /\ 0 <= n.b /\ n.b < id)

\* the build failed in the right operand after the left chain was pushed
C4_Witness ==
    /\ pc = "done"
    /\ root = NoId
    /\ \E id \in Ids : NodeAt(nodes, id).kind = "Spatial"

(***************************************************************************)
(* C5.  An Output{child, index} node evaluated at c evaluates its child at *)
(* c, records exactly the child's colour under o{index} and nothing else,  *)
(* and returns exactly that colour; the map holds for every key the value  *)
(* last inserted under it.                                                 *)
(***************************************************************************)
\* the value most recently inserted under key
LastInserted(key) ==
    LET at == {i \in 1 .. Len(log) : log[i].ev = "insert" /\ log[i].key = key}
    IN  log[CHOOSE i \in at : \A j \in at : j <= i].w

C5_OutputRecordsAndPasses ==
    /\ \A p \in EntersOf({"Output"}) :
          LET n == NodeOf(p)
              q == ExitIdx(p)
              w == log[q].w
          IN  /\ log[p + 1] = Ev("enter", n.a, "", log[p].w)
              /\ ExitIdx(p + 1) = q - 2
              /\ log[q - 2] = Ev("exit", n.a, "", w)
              /\ log[q - 1] = Ev("insert", NoId, "o" \o ToString(n.index), w)
    /\ \A key \in DOMAIN variables : variables[key] = LastInserted(key)
    /\ \A i \in 1 .. Len(log) : log[i].ev = "insert" => log[i].key \in DOMAIN variables

\* out(1) in the middle of a chain: invert() is applied to what out(1) passed on
C5_Witness ==
    /\ pc = "done"
    /\ \E p \in EntersOf({"Output"}) :
          /\ NodeOf(p).index = 1
          /\ NodeAt(nodes, Parent(log[p].id)).kind = "UnaryColor"
          /\ color = emit_unary_color("Invert", <<>>, variables["o1"])

(***************************************************************************)
(* C6 as claimed.  A Src(i) source evaluated after at least one Output     *)
(* node of index i has been evaluated yields the colour of the most        *)
(* recently evaluated Output(i).  In particular, in the script             *)
(* solid(..).out(i).op(src(i)) with op a colour-only binary and i one      *)
(* literal, src(i) is the colour of the solid.                             *)
(***************************************************************************)
\* the buffer index a Src node names: its first argument as u32, 0 when
\* missing
IndexOf(n) == IF Len(n.args) = 0 THEN 0 ELSE AsU32(n.args[1])

IsSrc(n) == n.kind = "Source" /\ n.ty = "Src"

\* the positions before p where an Output node of index i returned
OutputsBefore(p, i) ==
    {q \in 1 .. p - 1 : /\ log[q].ev = "exit"
                        /\ NodeAt(nodes, log[q].id).kind = "Output"
                        /\ NodeAt(nodes, log[q].id).index = i}

\* the position where node id is entered and the one where it returns
EnterOfNode(id) == CHOOSE q \in 1 .. Len(log) : log[q].ev = "enter" /\ log[q].id = id
ExitOfNode(id) == CHOOSE q \in 1 .. Len(log) : log[q].ev = "exit" /\ log[q].id = id

\* the events of the call entered on node id
Window(id) == EnterOfNode(id) .. ExitOfNode(id)

ColourOnly == {"Add", "Sub", "Mult", "Blend", "Diff", "Layer", "Mask"}

\* e is the call name(..) of a plain identifier
IsSourceCallOf(e, name) ==
    /\ e.t = "Call" /\ Callee(e).t = "Ident" /\ Callee(e).name = name

\* the script is solid(..).out(i).op(src(i), ..) with op a colour-only
\* binary and the two i the same numeric literal
SolidOutThenSrc ==
    LET e == script[1].e
        l == Callee(e).kids[1]
    IN  /\ e.t = "Call" /\ Callee(e).t = "Member" /\ Len(e.kids) >= 2
        /\ classify_binary(Callee(e).name) \in ColourOnly
        /\ l.t = "Call" /\ Callee(l).t = "Member" /\ Callee(l).name = "out"
        /\ IsSourceCallOf(Callee(l).kids[1], "solid")
        /\ IsSourceCallOf(e.kids[2], "src")
        /\ Len(l.kids) >= 2 /\ Len(e.kids[2].kids) >= 2
        /\ l.kids[2].t = "Num" /\ e.kids[2].kids[2] = l.kids[2]

C6_OutSrcRoundTrip ==
    /\ \A p \in EntersOf({"Source"}) :
          LET outs == OutputsBefore(p, IndexOf(NodeOf(p)))
          IN  (IsSrc(NodeOf(p)) /\ outs # {}) =>
                  log[ExitIdx(p)].w = log[CHOOSE q \in outs : \A r \in outs : r <= q].w
    /\ (pc = "done" /\ SolidOutThenSrc) =>
          LET n == NodeAt(nodes, root)
              l == NodeAt(nodes, n.a)
          IN  log[ExitOfNode(n.b)].w = log[ExitOfNode(l.a)].w

(***************************************************************************)
(* C7 as claimed.  In a chain L.out(i).op(src(i), ...) the src(i) reads    *)
(* the colour L.out(i) stored, not the fallback, for every binary kind op, *)
(* modulating kinds included.                                              *)
(***************************************************************************)
\* a Binary whose left operand is an Output node and whose right one a Src
OutThenSrc(n) == NodeAt(nodes, n.a).kind = "Output" /\ IsSrc(NodeAt(nodes, n.b))

\* the latest of the positions ps
Latest(ps) == CHOOSE q \in ps : \A r \in ps : r <= q

\* the Output nodes of the index Src node id names that returned before it
\* was entered
EarlierOutputs(id) == OutputsBefore(EnterOfNode(id), IndexOf(NodeAt(nodes, id)))

\* the lookup of its buffer the Src node id makes
GetOf(id) == CHOOSE g \in Window(id) : log[g].ev = "get" /\ log[g].key # "_st"

\* the Src of such a node finds the colour its Output stored
ReadsLeftOutput(n) ==
    EarlierOutputs(n.b) # {} /\ Latest(EarlierOutputs(n.b)) = ExitOfNode(n.a)

\* the script is L.out(i).op(src(i), ..): op a binary of any kind, i one
\* numeric literal
OutThenSrcChain ==
    LET e == script[1].e
        l == Callee(e).kids[1]
    IN  /\ e.t = "Call" /\ Callee(e).t = "Member" /\ Len(e.kids) >= 2
        /\ classify_binary(Callee(e).name) \in ColourOnly \cup {"Modulate", "ModulateScale"}
        /\ l.t = "Call" /\ Callee(l).t = "Member" /\ Callee(l).name = "out"
        /\ IsSourceCallOf(e.kids[2], "src")
        /\ Len(l.kids) >= 2 /\ Len(e.kids[2].kids) >= 2
        /\ l.kids[2].t = "Num" /\ e.kids[2].kids[2] = l.kids[2]

C7_Original ==
    (pc = "done" /\ root # NoId /\ OutThenSrcChain) =>
        /\ OutThenSrc(NodeAt(nodes, root))
        /\ ReadsLeftOutput(NodeAt(nodes, root))

(***************************************************************************)
(* C7 amended.  In a binary node L.out(i).op(src(j), ...) the Src looks up *)
(* buffer o{k}, k the u32 of the f32 of j, and yields the colour of the    *)
(* latest Output(k) that returned before it, or the fallback when there is *)
(* none.  With op a colour-only binary the left operand is evaluated       *)
(* first, so the Src reads the colour L.out(i) stored exactly when k is    *)
(* the index of the Output (the u32 of i; for i and j one literal, so for  *)
(* every integer literal).  With op a modulating binary the right operand  *)
(* is evaluated first, so the Src never reads what L.out(i) stores.        *)
(***************************************************************************)
C7_OutThenSrc ==
    /\ \A p \in EntersOf({"Binary"}) :
          LET n == NodeOf(p)
              src == NodeAt(nodes, n.b)
              earlier == EarlierOutputs(n.b)
              found == IF earlier = {} THEN NoWord ELSE log[Latest(earlier)].w
          IN  OutThenSrc(n) =>
                /\ IF n.ty \in ColourOnly
                   THEN ExitOfNode(n.a) < EnterOfNode(n.b)
                   ELSE ExitOfNode(n.b) < EnterOfNode(n.a)
                /\ log[GetOf(n.b)]
                      = Ev("get", IndexOf(src), buffer_key(IndexOf(src)), found)
                /\ log[ExitOfNode(n.b)].w
                      = IF earlier = {}
                        THEN emit_solid(NoWord, call_args_wrapper(src.args))
                        ELSE found
                /\ ReadsLeftOutput(n)
                      <=> (n.ty \in ColourOnly /\ IndexOf(src) = NodeAt(nodes, n.a).index)
    /\ (pc = "done" /\ root # NoId /\ OutThenSrcChain) =>
          LET n == NodeAt(nodes, root)
              i == CallArgs(Callee(script[1].e).kids[1])[1].v
          IN  /\ OutThenSrc(n)
              /\ i % Unit = 0 => IndexOf(NodeAt(nodes, n.b)) = NodeAt(nodes, n.a).index
              /\ i = FarIndex => IndexOf(NodeAt(nodes, n.b)) = NodeAt(nodes, n.a).index + 1

\* gradient().out(0).add(solid(0.75).out(0).modulateScale(src(0))): the
\* src(0) of the ModulateScale node is evaluated after gradient().out(0) and
\* before solid(0.75).out(0), and is the gradient
C7_Witness ==
    /\ pc = "done"
    /\ \E p \in EntersOf({"Binary"}) :
          LET n == NodeOf(p)
          IN  /\ OutThenSrc(n)
              /\ n.ty = "ModulateScale"
              /\ NodeAt(nodes, n.a).index = 0
              /\ EarlierOutputs(n.b) # {}
              /\ ~ReadsLeftOutput(n)
              /\ log[ExitOfNode(n.b)].w = T("gradient", <<>>, <<compute_uv>>)
              /\ log[ExitOfNode(n.a)].w = T("solid", <<750, 0, 0, 1000>>, <<>>)

(***************************************************************************)
(* C8 as claimed.  A src(i) evaluated when no out(i) has been stored       *)
(* yields solid() with default arguments, (0, 0, 0, 1), whatever i is.     *)
(***************************************************************************)
C8_FallbackIsDefaultSolid ==
    \A p \in EntersOf({"Source"}) :
        (IsSrc(NodeOf(p)) /\ OutputsBefore(p, IndexOf(NodeOf(p))) = {})
            => log[ExitIdx(p)].w = T("solid", <<0, 0, 0, 1000>>, <<>>)

(***************************************************************************)
(* C9.  For a chain X whose build succeeds and a method name m that is not *)
(* out and in none of the tables, X.m(args) builds the same arena and the  *)
(* same root id as X and compiles to the same root colour.                 *)
(***************************************************************************)
UnknownNames == {"noSuchMethod", "Rotate", "src"}
UnknownArgs == {<<>>, <<Src0, Num(500)>>}

IsUnknownName(m) ==
    /\ m # "out"
    /\ classify_spatial(m) = "" /\ classify_binary(m) = "" /\ classify_unary_color(m) = ""

\* the expression the script compiles, and the receiver of its outermost call
TopExpr == script[1].e
Receiver(e) == Callee(e).kids[1]
IsMethodCall(e) == e.t = "Call" /\ Callee(e).t = "Member"

C9_UnknownMethodPassesThrough ==
    /\ (pc = "emitted" /\ root # NoId) =>
          \A m \in UnknownNames, a \in UnknownArgs :
              LET r == compile(<<ExprStmt(MethodCall(TopExpr, m, a))>>)
              IN  IsUnknownName(m) /\ r.nodes = nodes /\ r.root = root /\ r.w = color
    /\ (pc = "emitted" /\ IsMethodCall(TopExpr) /\ IsUnknownName(Callee(TopExpr).name)) =>
          LET x == compile(<<ExprStmt(Receiver(TopExpr))>>)
          IN  x.nodes = nodes /\ x.root = root /\ x.w = color

\* gradient().rotate(0.5).noSuchMethod() compiled to the rotated gradient
C9_Witness ==
    /\ pc = "emitted"
    /\ IsMethodCall(TopExpr) /\ Callee(TopExpr).name = "noSuchMethod"
    /\ Len(nodes) = 2 /\ root = 1
    /\ color = T("gradient", <<>>, <<rotate_coord(compute_uv, 500, 0)>>)

(***************************************************************************)
(* C10 as claimed.  For add, sub, mult, blend, modulate and modulateScale  *)
(* a binary call without its second argument compiles to the same result   *)
(* as the call with amount 1; diff and layer compile to the same result    *)
(* whatever amount is given.                                               *)
(***************************************************************************)
AmountKinds == {"add", "sub", "mult", "blend", "modulate", "modulateScale"}

C10_MissingAmountIsOne ==
    (Emitted /\ IsMethodCall(TopExpr) /\ root # NoId) =>
        LET name == Callee(TopExpr).name
            args == CallArgs(TopExpr)
            with(a) == compile(<<ExprStmt(MethodCall(Receiver(TopExpr), name, <<args[1]>> \o a))>>)
        IN  /\ (name \in AmountKinds /\ Len(args) = 1) => color = with(<<Num(1000)>>).w
            /\ name \in {"diff", "layer"} => color = with(<<>>).w

(***************************************************************************)
(* C11 as claimed.  For each synonym m of the operator table               *)
(* (modulateRotate, modulateRepeat, modulatePixelate, modulateHue,         *)
(* modulateKaleid, modulateScrollX, modulateScrollY), X.m(Y, amount) with  *)
(* X and Y chains that build is lowered to a Binary node at the root and   *)
(* compiles to the colour X.modulate(Y, amount) compiles to.               *)
(***************************************************************************)
\* the expression builds to a node
Builds(e) == build_expr(<<>>, e).id # NoId

\* the script is X.m(Y, ...) with m one of names, X and Y chains that build
BinaryCallOf(names) ==
    /\ IsMethodCall(TopExpr)
    /\ Callee(TopExpr).name \in names
    /\ Builds(Receiver(TopExpr))
    /\ Len(CallArgs(TopExpr)) >= 1
    /\ CallArgs(TopExpr)[1].t = "Call"
    /\ Builds(CallArgs(TopExpr)[1])

C11_SynonymsAreModulate ==
    (pc = "done" /\ BinaryCallOf(ModulateSynonyms)) =>
        LET m == compile(<<ExprStmt(MethodCall(Receiver(TopExpr), "modulate", CallArgs(TopExpr)))>>)
        IN  /\ root # NoId
            /\ NodeAt(nodes, root).kind = "Binary"
            /\ color = m.w

(***************************************************************************)
(* C12.  For a chain X that builds, X.out(args) adds to the arena of X     *)
(* exactly one node, an Output whose child is the root of X, and returns   *)
(* it as the root.  Its index is the first argument when that is a numeric *)
(* literal (as the u32 the index is: a literal with a fraction is cut to   *)
(* its whole part), and 0 when the first argument is missing or is another *)
(* expression, whatever follows it.                                        *)
(***************************************************************************)
\* the script is X.name(...) with X a chain that builds
MethodCallOn(names) ==
    IsMethodCall(TopExpr) /\ Callee(TopExpr).name \in names /\ Builds(Receiver(TopExpr))

C12_OutPushesOneOutput ==
    (pc # "start" /\ MethodCallOn({"out"})) =>
        LET x == build_expr(<<>>, Receiver(TopExpr))
            args == CallArgs(TopExpr)
            n == nodes[Len(nodes)]
        IN  /\ Len(nodes) = Len(x.nodes) + 1
            /\ SubSeq(nodes, 1, Len(x.nodes)) = x.nodes
            /\ root = Len(nodes) - 1
            /\ n.kind = "Output" /\ n.a = x.id
            /\ IF Len(args) >= 1 /\ args[1].t = "Num"
               THEN n.index * Unit <= args[1].v /\ args[1].v < (n.index + 1) * Unit
               ELSE n.index = 0

\* gradient().rotate(0.5).out(2, "x"): the colour is recorded under o2
C12_Witness ==
    /\ pc = "done"
    /\ MethodCallOn({"out"})
    /\ CallArgs(TopExpr) = <<Num(2000), Str("x")>>
    /\ NodeAt(nodes, root) = Output(1, 2)
    /\ "o2" \in DOMAIN variables /\ variables["o2"] = color

(***************************************************************************)
(* C13 as claimed.  In a source, spatial or unary-colour call every        *)
(* parameter is bound by position: parameter k is the numeric literal at   *)
(* argument position k, and the operator's default when that position is   *)
(* missing or holds another expression.                                    *)
(***************************************************************************)
\* calls whose parameters have defaults that do not depend on other arguments
PositionalHeads == {"osc", "solid", "shape"}
PositionalMethods == {"rotate", "scroll", "invert", "color", "posterize"}

PositionalCall ==
    \/ (TopExpr.t = "Call" /\ Callee(TopExpr).t = "Ident" /\ Callee(TopExpr).name \in PositionalHeads)
    \/ MethodCallOn(PositionalMethods)

\* the parameters the emitter used for the root node: the constants of the
\* coordinate a spatial root handed to its child, of the root colour otherwise
ParamsOf(ns, id, lg, w) ==
    IF NodeAt(ns, id).kind = "Spatial"
    THEN lg[(CHOOSE q \in 1 .. Len(lg) : lg[q].ev = "enter" /\ lg[q].id = id) + 1].w.k
    ELSE w.k

\* the parameters the same operator uses when called without arguments
DefaultParams ==
    LET n == NodeAt(nodes, root)
        x == T("x", <<>>, <<>>)
    IN  CASE n.kind = "Source" -> emit_source([vars |-> variables, log |-> <<>>], n.ty, <<>>, x).w.k
          [] n.kind = "Spatial" -> apply_spatial_transform(n.ty, <<>>, x).k
          [] n.kind = "UnaryColor" -> emit_unary_color(n.ty, <<>>, x).k

C13_NonNumericIsMissing ==
    (pc = "done" /\ root # NoId /\ PositionalCall) =>
        LET args == CallArgs(TopExpr)
            k == ParamsOf(nodes, root, log, color)
        IN  \A i \in 1 .. Len(k) :
                k[i] = IF i <= Len(args) /\ args[i].t = "Num" THEN args[i].v ELSE DefaultParams[i]

(***************************************************************************)
(* C14.  For a source, spatial or unary-colour call the args of the IR     *)
(* node are exactly the numeric literals among the call's arguments, in    *)
(* their original order: every other argument expression is dropped and    *)
(* nothing is added.                                                       *)
(***************************************************************************)
\* the values of the numeric literals of args from position i on, in order
RECURSIVE LiteralsFrom(_, _)
LiteralsFrom(args, i) ==
    IF i > Len(args) THEN <<>>
    ELSE IF args[i].t = "Num" THEN <<args[i].v>> \o LiteralsFrom(args, i + 1)
    ELSE LiteralsFrom(args, i + 1)

\* the script is one source call, or a spatial or unary-colour method on a
\* chain that builds
ArgsCall ==
    \/ (TopExpr.t = "Call" /\ Callee(TopExpr).t = "Ident" /\ classify_source(Callee(TopExpr).name) # "")
    \/ (/\ IsMethodCall(TopExpr) /\ Builds(Receiver(TopExpr))
        /\ \/ classify_spatial(Callee(TopExpr).name) # ""
           \/ classify_unary_color(Callee(TopExpr).name) # "")

C14_ArgsAreTheLiterals ==
    (pc # "start" /\ ArgsCall) =>
        /\ root = Len(nodes) - 1
        /\ NodeAt(nodes, root).kind \in {"Source", "Spatial", "UnaryColor"}
        /\ NodeAt(nodes, root).args = LiteralsFrom(CallArgs(TopExpr), 1)

\* osc("x", 0.5, 2): the node keeps [0.5, 2]
C14_Witness ==
    /\ pc = "done"
    /\ TopExpr = SourceCall("osc", <<Str("x"), Num(500), Num(2000)>>)
    /\ nodes = <<Source("Osc", <<500, 2000>>)>>
    /\ color = T("osc", <<500, 2000, 0>>, <<compute_uv>>)

(***************************************************************************)
(* C15.  For a binary call X.op(A, B, ...) with X a chain that builds and  *)
(* A a call that builds, the arena is the nodes of X, then the nodes of A, *)
(* then one Binary node of the kind of op with left the root of X and      *)
(* right the root of A; its args are [B] when the second argument B is a   *)
(* numeric literal and [] otherwise, whatever the later arguments are.     *)
(***************************************************************************)
\* node n with its child ids moved up by off
Shifted(n, off) ==
    [n EXCEPT !.a = IF n.a = NoId THEN NoId ELSE n.a + off,
              !.b = IF n.b = NoId THEN NoId ELSE n.b + off]

C15_BinaryLowering ==
    (pc # "start" /\ BinaryCallOf(BinaryNames)) =>
        LET args == CallArgs(TopExpr)
            x == build_expr(<<>>, Receiver(TopExpr))
            y == build_expr(<<>>, args[1])
            nx == Len(x.nodes)
            ny == Len(y.nodes)
            n == nodes[Len(nodes)]
        IN  /\ Len(nodes) = nx + ny + 1
            /\ \A i \in 1 .. nx : nodes[i] = x.nodes[i]
            /\ \A j \in 1 .. ny : nodes[nx + j] = Shifted(y.nodes[j], nx)
            /\ root = nx + ny
            /\ n.kind = "Binary" /\ n.ty = classify_binary(Callee(TopExpr).name)
            /\ n.a = x.id /\ n.b = y.id + nx
            /\ n.args = IF Len(args) >= 2 /\ args[2].t = "Num" THEN <<args[2].v>> ELSE <<>>

\* gradient().rotate(0.5).blend(osc(30).scale(2), "x", 2): the amount is
\* not taken from the third argument
C15_Witness ==
    /\ pc = "done"
    /\ BinaryCallOf({"blend"})
    /\ Len(CallArgs(TopExpr)) = 3
    /\ CallArgs(TopExpr)[2] = Str("x") /\ CallArgs(TopExpr)[3] = Num(2000)
    /\ Len(nodes) = 5
    /\ nodes[5] = Binary("Blend", <<>>, 1, 3)
    /\ nodes[4] = Spatial("Scale", <<2000>>, 2)
    /\ color.op = "binary_blend" /\ color.k = <<1000>>

(***************************************************************************)
(* C16.  For every script, the empty one and one whose first expression is *)
(* no chain included, the finished module declares exactly one entry       *)
(* point: main, execution model Fragment, interface (FragCoord, FragColor, *)
(* Globals), with the one execution mode OriginUpperLeft; main is one      *)
(* function whose body ends with its only return.  No entry point is       *)
(* declared before the function is ended.                                  *)
(***************************************************************************)
C16_OneFragmentEntryPoint ==
    /\ pc = "done" =>
          /\ module.entry_points =
                <<[model |-> "Fragment", name |-> "main",
                   interface |-> <<"FragCoord", "FragColor", "Globals">>]>>
          /\ module.execution_modes = <<"OriginUpperLeft">>
          /\ module.functions = <<"main">>
          /\ module.assembled
          /\ body[Len(body)].op = "Return"
          /\ Cardinality({i \in 1 .. Len(body) : body[i].op = "Return"}) = 1
    /\ pc # "done" =>
          /\ module = EmptyModule
          /\ \A i \in 1 .. Len(body) : body[i].op # "Return"

\* the empty script: main is a lone return, and the entry point is declared
C16_Witness ==
    /\ pc = "done"
    /\ script = <<>>
    /\ root = NoId
    /\ body = <<Ins("Return", NoWord)>>
    /\ Len(module.entry_points) = 1

(***************************************************************************)
(* C17.  Compilation is total.  For every script (any nesting of calls and *)
(* member expressions, known and unknown names, missing and non-literal    *)
(* arguments) build_script returns none or a node of the arena, every      *)
(* child reference of the arena is a node below its parent (so the         *)
(* recursion of emit_ir_node descends), every node id emit_ir_node is      *)
(* called on lies inside the arena, every call of emit_ir_node returns,    *)
(* and emit_pipeline ends with an assembled module.                        *)
(***************************************************************************)
\* every enter of the record has its exit
CallsReturn ==
    \A p \in 1 .. Len(log) :
        log[p].ev = "enter" =>
            \E q \in p + 1 .. Len(log) : log[q].ev = "exit" /\ log[q].id = log[p].id

C17_CompilationIsTotal ==
    /\ root \in {NoId} \cup Ids
    /\ \A id \in Ids :
          LET n == NodeAt(nodes, id)
          IN  /\ n.kind # "Source" => n.a \in 0 .. id - 1
              /\ n.kind = "Binary" => n.b \in 0 .. id - 1
    /\ \A i \in 1 .. Len(log) : log[i].ev \in {"enter", "exit"} => log[i].id \in Ids
    /\ CallsReturn
    /\ pc = "start" => build_script(<<>>, script).id \in {NoId} \cup (0 .. Len(build_script(<<>>, script).nodes) - 1)
    /\ pc = "done" => module.assembled /\ body[Len(body)].op = "Return"

\* osc(x).foo(osc()).modulate(src(1).out(1), x) compiled: unknown method,
\* non-literal arguments, a nested chain as operand
C17_Witness ==
    /\ pc = "done"
    /\ script = <<ExprStmt(MethodCall(MethodCall(SourceCall("osc", <<Ident("x")>>), "foo",
                                                 <<SourceCall("osc", <<>>)>>),
                                      "modulate",
                                      <<MethodCall(Src1, "out", <<Num(1000)>>), Ident("x")>>))>>
    /\ Len(nodes) = 4 /\ root = 3
    /\ color # NoWord
    /\ module.assembled

(***************************************************************************)
(* C18.  When the root yields a colour, main stores to FragColor exactly   *)
(* once: the value stored is the clamp of the ACES tone map of the         *)
(* auto-exposure of the root colour, the colour the last call of           *)
(* emit_ir_node returned; the store is the first instruction recorded and  *)
(* the return follows it.  When there is no root colour, and before the IR *)
(* is evaluated, there is no store.                                        *)
(***************************************************************************)
\* the positions of body that store to FragColor
Stores == {i \in 1 .. Len(body) : body[i].op = "Store"}

C18_PostProcessThenStoreOnce ==
    /\ (pc \in {"emitted", "done"} /\ color # NoWord) =>
          /\ Stores = {1}
          /\ LET clamped == body[1].w
                 adjusted == clamped.s[1]
                 exposed == adjusted.s[1]
             IN  /\ clamped.op = "clamp_vec4" /\ Len(clamped.s) = 1
                 /\ adjusted.op = "tone_map_aces" /\ Len(adjusted.s) = 1
                 /\ exposed.op = "apply_auto_exposure" /\ exposed.s = <<color>>
          /\ log[Len(log)] = Ev("exit", root, "", color)
          /\ pc = "done" => (Len(body) = 2 /\ body[2].op = "Return")
    /\ (pc \notin {"emitted", "done"} \/ color = NoWord) => Stores = {}

\* osc(x).out(1).rotate(0.5): one store to FragColor although the chain
\* also records a buffer
C18_Witness ==
    /\ pc = "done"
    /\ \E id \in Ids : NodeAt(nodes, id).kind = "Output"
    /\ NodeAt(nodes, root).kind = "Spatial"
    /\ "o1" \in DOMAIN variables
    /\ body = <<Ins("Store", clamp_vec4(tone_map_aces(apply_auto_exposure(color)))),
                Ins("Return", NoWord)>>

(***************************************************************************)
(* C19 as claimed.  The colour stored to FragColor has its alpha channel   *)
(* in [0, 1], whatever the alpha of the root colour is.                    *)
(***************************************************************************)
Zero == emit_f32_constant(0)
One == emit_f32_constant(1000)

C19_StoredAlphaInUnit ==
    \A i \in Stores :
        LET a == Alpha(body[i].w)
        IN  ~f_ord_less_than(a, Zero) /\ ~f_ord_less_than(One, a)

(***************************************************************************)
(* C20.  Colour identity laws.  For every input colour x, channels inside  *)
(* or outside [0, 1], x.invert(0), x.brightness(1), x.contrast(1) and      *)
(* x.saturate(1) each compute a colour equal to x in all four channels, in *)
(* exact arithmetic.                                                       *)
(*                                                                         *)
(* The laws are stated of the instruction sequences read over the          *)
(* rationals: a number is [n, d] in lowest terms, d > 0, a constant is the *)
(* literal itself, and OpFAdd, OpFSub and OpFMul are the exact sum,        *)
(* difference and product.  The exact_ operators below are the emitters of *)
(* the four operations in that reading.                                    *)
(***************************************************************************)
Abs(x) == IF x < 0 THEN 0 - x ELSE x

RECURSIVE Gcd(_, _)
Gcd(a, b) == IF b = 0 THEN a ELSE Gcd(b, a % b)

\* the rational n / d in lowest terms
Q(n, d) ==
    LET g == Gcd(Abs(n), Abs(d))
    IN  IF d < 0 THEN [n |-> (0 - n) \div g, d |-> (0 - d) \div g]
        ELSE [n |-> n \div g, d |-> d \div g]

\* the literal of emit_f32_constant, written in thousandths
exact_constant(v) == Q(v, Unit)

exact_add(x, y) ==
    LET g == Gcd(x.d, y.d)
    IN  Q(x.n * (y.d \div g) + y.n * (x.d \div g), (x.d \div g) * y.d)

exact_sub(x, y) == exact_add(x, [n |-> 0 - y.n, d |-> y.d])

exact_mul(x, y) ==
    LET g1 == Gcd(Abs(x.n), y.d)
        g2 == Gcd(Abs(y.n), x.d)
    IN  IF x.n = 0 \/ y.n = 0 THEN Q(0, 1)
        ELSE [n |-> (x.n \div g1) * (y.n \div g2), d |-> (x.d \div g2) * (y.d \div g1)]

\* the interpolation with the weights exchanged
exact_mix_swapped(a, b, t) ==
    exact_add(exact_mul(a, t), exact_mul(b, exact_sub(exact_constant(1000), t)))

\* mix(a, b, t) = a * (1 - t) + b * t
exact_mix(a, b, t) ==
    LET one == exact_constant(1000)
        one_minus_t == exact_sub(one, t)
        left == exact_mul(a, one_minus_t)
        right == exact_mul(b, t)
    IN  exact_add(left, right)

exact_luma(c) ==
    LET rg == exact_mul(c[1], exact_constant(299))
        gg == exact_mul(c[2], exact_constant(587))
        bg == exact_mul(c[3], exact_constant(114))
    IN  exact_add(exact_add(rg, gg), bg)

exact_invert(c, amount) ==
    LET one == exact_constant(1000)
    IN  <<exact_mix(c[1], exact_sub(one, c[1]), amount),
          exact_mix(c[2], exact_sub(one, c[2]), amount),
          exact_mix(c[3], exact_sub(one, c[3]), amount), c[4]>>

exact_brightness_amount(c, amount) ==
    <<exact_mul(c[1], amount), exact_mul(c[2], amount), exact_mul(c[3], amount), c[4]>>

exact_contrast_amount(c, amount) ==
    LET half == exact_constant(500)
        apply(ch) == exact_add(exact_mul(exact_sub(ch, half), amount), half)
    IN  <<apply(c[1]), apply(c[2]), apply(c[3]), c[4]>>

exact_saturate(c, amt) ==
    LET luma == exact_luma(c)
    IN  <<exact_mix(luma, c[1], amt), exact_mix(luma, c[2], amt),
          exact_mix(luma, c[3], amt), c[4]>>

\* the terms built from solid() by the four operations of the laws
RECURSIVE IsExactTerm(_)
IsExactTerm(w) ==
    \/ w.op = "solid"
    \/ w.op \in {"invert", "brightness", "contrast", "saturate"} /\ IsExactTerm(w.s[1])

\* the colour such a term denotes in exact arithmetic
RECURSIVE ExactValue(_)
ExactValue(w) ==
    LET K(i) == exact_constant(w.k[i])
    IN  CASE w.op = "solid" -> <<K(1), K(2), K(3), K(4)>>
          [] w.op = "invert" -> exact_invert(ExactValue(w.s[1]), K(1))
          [] w.op = "brightness" -> exact_brightness_amount(ExactValue(w.s[1]), K(1))
          [] w.op = "contrast" -> exact_contrast_amount(ExactValue(w.s[1]), K(1))
          [] w.op = "saturate" -> exact_saturate(ExactValue(w.s[1]), K(1))

\* [name, args] of the calls the laws are about
IdentityCalls ==
    {<<"invert", <<Num(0)>>>>, <<"brightness", <<Num(1000)>>>>,
     <<"contrast", <<Num(1000)>>>>, <<"saturate", <<Num(1000)>>>>}

\* the script ends with one of the calls of the laws
IsIdentityCall ==
    /\ IsMethodCall(TopExpr)
    /\ <<Callee(TopExpr).name, CallArgs(TopExpr)>> \in IdentityCalls

C20_ColourIdentities ==
    /\ (pc = "done" /\ IsIdentityCall) =>
          /\ NodeAt(nodes, root).kind = "UnaryColor"
          /\ IsExactTerm(color) =>
                ExactValue(color) = ExactValue(log[ExitOfNode(NodeAt(nodes, root).a)].w)
    /\ (pc = "done" /\ color # NoWord /\ IsExactTerm(color)) =>
          \A m \in IdentityCalls :
              ExactValue(emit_unary_color(classify_unary_color(m[1]), extract_f32_args(Call(Ident(m[1]), m[2])), color))
                  = ExactValue(color)

\* solid(0.25, 1, -0.5, 2).saturate(1): every channel as written, alpha 2
C20_Witness ==
    /\ pc = "done"
    /\ TopExpr = MethodCall(SourceCall("solid", <<Num(250), Num(1000), Num(-500), Num(2000)>>),
                            "saturate", <<Num(1000)>>)
    /\ color.op = "saturate"
    /\ ExactValue(color) = <<Q(1, 4), Q(1, 1), Q(-1, 2), Q(2, 1)>>

(***************************************************************************)
(* C21.  Coordinate identity laws.  As claimed: for every incoming         *)
(* coordinate, inside or outside [0, 1)^2, a scale(1, 1), rotate(0, 0) or  *)
(* repeat(1, 1) node passes to its child a coordinate equal to the         *)
(* incoming one.  As amended, with every instruction rounded to the        *)
(* nearest float: of a finite incoming coordinate, scale(1, 1) and         *)
(* rotate(0, 0) pass each component x as (x - 0.5) + 0.5, which is x when  *)
(* x - 0.5 is a float (x in [1/4, 1], or a multiple of 2^-24 in            *)
(* [-1/2, 3/2]) and can miss x by a rounding error otherwise;              *)
(* repeat(1, 1) passes x - floor(x), which is x exactly when 0 <= x < 1.   *)
(***************************************************************************)
\* [ty, args] of the nodes the laws are about
IdentityTransforms ==
    {<<"Scale", <<1000, 1000>>>>, <<"Rotate", <<0, 0>>>>, <<"Repeat", <<1000, 1000>>>>}

\* positions of the log where such a node is entered
IdentityEnters ==
    {p \in EntersOf({"Spatial"}) : <<NodeOf(p).ty, NodeOf(p).args>> \in IdentityTransforms}

\* the call entered right after p is the one on the child of the node entered at p
ChildEnteredNext(p) ==
    p + 1 <= Len(log) /\ log[p + 1].ev = "enter" /\ log[p + 1].id = NodeOf(p).a

Half == emit_f32_constant(500)

\* both components are finite numbers
IsFiniteCoord(c) == IsFinite(c[1]) /\ IsFinite(c[2])

\* the coordinates are equal as numbers, component by component
SameCoord(c, d) == f_ord_equal(c[1], d[1]) /\ f_ord_equal(c[2], d[2])

\* 0 <= x < 1
InUnit(x) == ~f_ord_less_than(x, Zero) /\ f_ord_less_than(x, One)

\* x is a multiple of 2^-24
OnGrid(x) ==
    LET below == 0 - MantBits - x.e
    IN  x.m = 0 \/ below <= 0 \/ (below < MantBits /\ x.m % 2^below = 0)

\* x - 0.5 is a float: 1/4 <= x <= 1, or x is a multiple of 2^-24 with
\* -1/2 <= x <= 3/2
HalfOffIsExact(x) ==
    \/ ~f_ord_less_than(x, emit_f32_constant(250)) /\ ~f_ord_less_than(One, x)
    \/ /\ OnGrid(x)
       /\ ~f_ord_less_than(x, emit_f32_constant(0 - 500))
       /\ ~f_ord_less_than(emit_f32_constant(1500), x)

\* x centred at 0.5 and moved back
Recentred(x) == f_add(f_sub(x, Half), Half)

C21_Original ==
    pc = "done" => \A p \in IdentityEnters :
        /\ ChildEnteredNext(p)
        /\ \A f \in Samples :
              IsFiniteCoord(CoordValue(log[p].w, f.uv, f.time))
              => SameCoord(CoordValue(log[p + 1].w, f.uv, f.time),
                           CoordValue(log[p].w, f.uv, f.time))

C21_CoordinateIdentities ==
    pc = "done" => \A p \in IdentityEnters :
        /\ ChildEnteredNext(p)
        /\ \A f \in Samples :
              LET c == CoordValue(log[p].w, f.uv, f.time)
                  passed == CoordValue(log[p + 1].w, f.uv, f.time)
              IN  IsFiniteCoord(c) =>
                      IF NodeOf(p).ty = "Repeat"
                      THEN /\ passed = <<emit_fract(c[1]), emit_fract(c[2])>>
                           /\ \A i \in 1 .. 2 : f_ord_equal(passed[i], c[i]) <=> InUnit(c[i])
                      ELSE /\ \A i \in 1 .. 2 : f_ord_equal(passed[i], Recentred(c[i]))
                           /\ \A i \in 1 .. 2 :
                                 HalfOffIsExact(c[i]) => f_ord_equal(passed[i], c[i])

\* osc(30).scale(1, 1).scale(0.5): the fragment (1/8, 7/8) reaches
\* scale(1, 1) at (-1/4, 5/4), and the source is evaluated there; of the
\* base coordinate x = 13421773 * 2^-27 (the float nearest to 1/10)
\* scale(1, 1) makes 13421772 * 2^-27
C21_Witness ==
    /\ pc = "done"
    /\ TopExpr = MethodCall(MethodCall(SourceCall("osc", <<Num(30000)>>),
                                       "scale", <<Num(1000), Num(1000)>>),
                            "scale", <<Num(500)>>)
    /\ \E p \in IdentityEnters :
          LET c == CoordValue(log[p].w, UvEighth, Later)
          IN  /\ c = <<emit_f32_constant(0 - 250), emit_f32_constant(1250)>>
              /\ CoordValue(log[p + 1].w, UvEighth, Later) = c
              /\ ~InUnit(c[1]) /\ ~InUnit(c[2])
    /\ UvTenth[1] = Fin(0, 13421773, 0 - 27)
    /\ scale_coord_value(UvTenth, 1000, 1000) = <<Fin(0, 13421772, 0 - 27), UvTenth[2]>>

(***************************************************************************)
(* C22.  Modulation with amount 0.  As claimed: for every incoming         *)
(* coordinate c and every modulator colour, a Modulate or ModulateScale    *)
(* node with amount 0 evaluates its left operand at a coordinate equal to  *)
(* c, so X.modulate(Y, 0) yields the same colour as X wherever it appears  *)
(* in a chain.  As amended, with every instruction rounded to the nearest  *)
(* float, for a finite incoming coordinate c and a modulator colour of     *)
(* finite channels: a ModulateScale node with amount 0 evaluates its left  *)
(* operand at ((c.x - 0.5) + 0.5, (c.y - 0.5) + 0.5), which is c when      *)
(* c.x - 0.5 and c.y - 0.5 are floats; a Modulate node with amount 0       *)
(* evaluates it at (clamp01(c.x), clamp01(c.y)), which is c exactly when c *)
(* lies in [0, 1]^2; and the chain yields the same colour as the chain     *)
(* without its amount-0 modulations at every fragment where these          *)
(* coordinates are equal, provided no src outside their modulators reads a *)
(* colour that an out inside one of them stored.                           *)
(***************************************************************************)
\* positions of the log where a modulating node with amount 0 is entered
ZeroModulations ==
    {p \in EntersOf({"Binary"}) : is_modulating(NodeOf(p).ty) /\ NodeOf(p).args = <<0>>}

\* the coordinate the left operand of the node entered at p is evaluated at
LeftCoord(p) == log[EnterOfNode(NodeOf(p).a)].w

\* the colour a colour term denotes at a fragment, as far as the model
\* computes it: the same operations applied to the values of the coordinates
RECURSIVE ColourAt(_, _, _)
ColourAt(w, uv, t) ==
    IF w.op \in {"osc", "gradient", "noise", "shape", "voronoi"}
    THEN [op |-> w.op, k |-> w.k, s |-> <<CoordValue(w.s[1], uv, t)>>]
    ELSE [op |-> w.op, k |-> w.k, s |-> [i \in 1 .. Len(w.s) |-> ColourAt(w.s[i], uv, t)]]

IsZeroModulation(e) ==
    /\ IsMethodCall(e)
    /\ Callee(e).name \in {"modulate", "modulateScale"}
    /\ Len(CallArgs(e)) >= 2
    /\ CallArgs(e)[2] = Num(0)

\* the chain without its amount-0 modulations, those of its operand chains
\* included
RECURSIVE WithoutZeroModulations(_)
WithoutZeroModulations(e) ==
    IF ~IsMethodCall(e) THEN e
    ELSE IF IsZeroModulation(e) THEN WithoutZeroModulations(Receiver(e))
    ELSE MethodCall(WithoutZeroModulations(Receiver(e)), Callee(e).name,
                    [i \in 1 .. Len(CallArgs(e)) |-> WithoutZeroModulations(CallArgs(e)[i])])

\* the events of the modulators of the amount-0 modulations
Removed == UNION {Window(NodeOf(p).b) : p \in ZeroModulations}

\* the event at g is a src, outside those modulators, finding in its buffer
\* a colour that an out inside one of them stored
ReadsRemoved(g) ==
    /\ log[g].ev = "get" /\ log[g].key # "_st" /\ g \notin Removed
    /\ \E i \in Removed :
          /\ i < g /\ log[i].ev = "insert" /\ log[i].key = log[g].key
          /\ \A j \in i + 1 .. g - 1 : ~(log[j].ev = "insert" /\ log[j].key = log[g].key)

\* 0 <= x <= 1
InUnitRange(x) == ~f_ord_less_than(x, Zero) /\ ~f_ord_less_than(One, x)

C22_Original ==
    pc = "done" =>
        /\ \A p \in ZeroModulations, f \in Samples :
              IsFiniteCoord(CoordValue(log[p].w, f.uv, f.time))
              => SameCoord(CoordValue(LeftCoord(p), f.uv, f.time),
                           CoordValue(log[p].w, f.uv, f.time))
        /\ LET plain == compile(<<ExprStmt(WithoutZeroModulations(TopExpr))>>).w
           IN  \A f \in Samples : ColourAt(color, f.uv, f.time) = ColourAt(plain, f.uv, f.time)

C22_ZeroModulation ==
    (pc = "done" /\ ZeroModulations # {}) =>
        /\ \A p \in ZeroModulations, f \in Samples :
              LET c == CoordValue(log[p].w, f.uv, f.time)
                  passed == CoordValue(LeftCoord(p), f.uv, f.time)
              IN  IsFiniteCoord(c) =>
                      IF NodeOf(p).ty = "ModulateScale"
                      THEN /\ \A i \in 1 .. 2 : f_ord_equal(passed[i], Recentred(c[i]))
                           /\ \A i \in 1 .. 2 :
                                 HalfOffIsExact(c[i]) => f_ord_equal(passed[i], c[i])
                      ELSE /\ passed = <<clamp01(c[1]), clamp01(c[2])>>
                           /\ \A i \in 1 .. 2 :
                                 f_ord_equal(passed[i], c[i]) <=> InUnitRange(c[i])
        /\ (\A g \in 1 .. Len(log) : ~ReadsRemoved(g)) =>
              LET plain == compile(<<ExprStmt(WithoutZeroModulations(TopExpr))>>).w
              IN  \A f \in Samples :
                      (\A p \in ZeroModulations :
                            CoordValue(LeftCoord(p), f.uv, f.time)
                                = CoordValue(log[p].w, f.uv, f.time))
                      => ColourAt(color, f.uv, f.time) = ColourAt(plain, f.uv, f.time)

\* osc(30).modulate(solid(0.25, 1, -0.5), 0).scale(0.5): at the fragment
\* (1/8, 7/8) the Modulate node is entered at (-1/4, 5/4) and osc evaluated
\* at (0, 1); at (1/2, 1/2) the colour is that of osc(30).scale(0.5)
C22_Witness ==
    /\ pc = "done"
    /\ TopExpr = MethodCall(MethodCall(SourceCall("osc", <<Num(30000)>>), "modulate",
                                       <<SourceCall("solid", <<Num(250), Num(1000), Num(-500)>>),
                                         Num(0)>>),
                            "scale", <<Num(500)>>)
    /\ \E p \in ZeroModulations :
          /\ NodeOf(p).ty = "Modulate"
          /\ CoordValue(log[p].w, UvEighth, Later)
                = <<emit_f32_constant(0 - 250), emit_f32_constant(1250)>>
          /\ CoordValue(LeftCoord(p), UvEighth, Later) = <<Zero, One>>
          /\ CoordValue(LeftCoord(p), UvCentre, Start) = <<Half, Half>>
    /\ \A g \in 1 .. Len(log) : ~ReadsRemoved(g)
    /\ ColourAt(color, UvCentre, Start) = T("osc", <<30000, 100, 0>>, <<<<Half, Half>>>>)

(***************************************************************************)
(* C23.  Alpha under the unary colour operations.  invert, brightness,     *)
(* contrast, saturate, posterize, thresh, hue, colorama and luma return a  *)
(* colour whose alpha is exactly the input colour's alpha, for every input *)
(* and every argument; color multiplies alpha by its fourth argument       *)
(* (default 1); shift adds its fourth argument (default 0) and clamps the  *)
(* sum to [0, 1].                                                          *)
(***************************************************************************)
\* the fourth argument of the operation at the root, or its default
FourthArg(default) ==
    LET args == NodeAt(nodes, root).args
    IN  emit_f32_constant(IF Len(args) >= 4 THEN args[4] ELSE default)

C23_UnaryAlpha ==
    (pc = "done" /\ root # NoId /\ NodeAt(nodes, root).kind = "UnaryColor") =>
        LET ty == NodeAt(nodes, root).ty
            input == Value(log[ExitOfNode(NodeAt(nodes, root).a)].w)
            output == Value(color)
        IN  CASE ty = "Color" -> output[4] = f_mul(input[4], FourthArg(1000))
              [] ty = "Shift" ->
                    LET sum == f_add(input[4], FourthArg(0))
                    IN  output[4] = IF f_ord_less_than(sum, Zero) THEN Zero
                                    ELSE IF f_ord_less_than(One, sum) THEN One ELSE sum
              [] OTHER -> output[4] = input[4]

\* solid(0.25, 1, -0.5, 2).posterize(): alpha 2 in, alpha 2 out
C23_Witness ==
    /\ pc = "done"
    /\ TopExpr = MethodCall(SourceCall("solid", <<Num(250), Num(1000), Num(-500), Num(2000)>>),
                            "posterize", <<>>)
    /\ color.op = "posterize"
    /\ Value(color)[4] = emit_f32_constant(2000)
    /\ Value(color)[1] = T("posterize", <<4000, 600>>, <<emit_f32_constant(250)>>)

(***************************************************************************)
(* C24.  build_script compiles only the first expression statement of the  *)
(* script: the statements before it that are no expression statements are  *)
(* skipped, the result of building it (a root or none) is the result of    *)
(* build_script, and the later statements leave no trace: no node, no      *)
(* buffer, no colour.  An out(i) in one statement is not visible to a      *)
(* src(i) in a following one, and a later chain is not used when the first *)
(* expression statement builds none.                                       *)
(***************************************************************************)
ExprStmts == {i \in 1 .. Len(script) : script[i].t = "Expr"}

\* the first expression statement of the script
FirstExpr == script[CHOOSE i \in ExprStmts : \A j \in ExprStmts : i <= j].e

C24_OnlyFirstExpressionStatement ==
    /\ (pc # "start" /\ ExprStmts = {}) => (root = NoId /\ nodes = <<>>)
    /\ (pc # "start" /\ ExprStmts # {}) =>
          LET b == build_expr(<<>>, FirstExpr)
          IN  nodes = b.nodes /\ root = b.id
    /\ (pc = "done" /\ ExprStmts # {}) =>
          LET alone == compile(<<ExprStmt(FirstExpr)>>)
          IN  /\ color = alone.w
              /\ (alone.root = NoId) => (color = NoWord /\ Stores = {})
              /\ \A p \in 1 .. Len(log) :
                    log[p].ev = "enter" => log[p].id \in 0 .. Len(alone.nodes) - 1
    /\ (pc = "done" /\ ExprStmts = {}) => (color = NoWord /\ Stores = {})

\* ; solid(0.75).out(0); src(0): the colour stored is that of the solid, no
\* src node exists and nothing reads o0
C24_Witness ==
    /\ pc = "done"
    /\ script = <<EmptyStmt, ExprStmt(Solid1Out0), ExprStmt(Src0)>>
    /\ Len(nodes) = 2
    /\ color = T("solid", <<750, 0, 0, 1000>>, <<>>)
    /\ \A p \in 1 .. Len(log) : log[p].ev # "get"
    /\ Stores = {1}

(***************************************************************************)
(* C25.  Whenever build_script returns a root, the arena is a tree rooted  *)
(* there: the root is the last node pushed, every other node is referenced *)
(* by exactly one parent field, every node is reachable from the root, and *)
(* the evaluation enters each node exactly once.                           *)
(***************************************************************************)
\* the fields of the arena that reference node id: [parent, field]
References(id) ==
    {<<p, "a">> : p \in {q \in Ids : NodeAt(nodes, q).a = id}}
    \cup {<<p, "b">> : p \in {q \in Ids : NodeAt(nodes, q).b = id}}

\* the nodes reached from id through child, left and right
RECURSIVE Reachable(_)
Reachable(id) ==
    IF id \notin Ids THEN {}
    ELSE {id} \cup Reachable(NodeAt(nodes, id).a) \cup Reachable(NodeAt(nodes, id).b)

C25_ArenaIsTree ==
    /\ (pc # "start" /\ root # NoId) =>
          /\ root = Len(nodes) - 1
          /\ References(root) = {}
          /\ \A id \in Ids \ {root} : Cardinality(References(id)) = 1
          /\ Reachable(root) = Ids
    /\ (Emitted /\ root # NoId) =>
          \A id \in Ids :
              Cardinality({p \in 1 .. Len(log) : log[p].ev = "enter" /\ log[p].id = id}) = 1

\* a root over a binary with operands of several nodes each
C25_Witness ==
    /\ pc = "done"
    /\ root # NoId
    /\ Len(nodes) >= 5
    /\ \E id \in Ids :
          /\ NodeAt(nodes, id).kind = "Binary"
          /\ NodeAt(nodes, id).a # NodeAt(nodes, id).b
          /\ NodeAt(nodes, NodeAt(nodes, id).a).kind # "Source"
          /\ NodeAt(nodes, NodeAt(nodes, id).b).kind # "Source"
    /\ \A id \in Ids : \E p \in 1 .. Len(log) : log[p].ev = "enter" /\ log[p].id = id

(***************************************************************************)
(* C26.  A chain whose innermost call, or whose operand chain passed as    *)
(* the first argument of a binary call anywhere in it, does not start from *)
(* a known source name builds none as a whole: build_script returns none   *)
(* and nothing is stored, the left operand is not passed through, and the  *)
(* nodes pushed for the left operand stay in the arena.                    *)
(***************************************************************************)
\* e is a call of a name that is no source, or a chain on such a call, or a
\* chain with a binary call whose operand chain is one
RECURSIVE HasUnknownStart(_)
HasUnknownStart(e) ==
    CASE e.t = "Call" /\ Callee(e).t = "Ident" -> classify_source(Callee(e).name) = ""
      [] e.t = "Member" -> HasUnknownStart(e.kids[1])
      [] IsMethodCall(e) /\ Callee(e).name # "" ->
            \/ HasUnknownStart(Receiver(e))
            \/ /\ Callee(e).name # "out"
               /\ classify_binary(Callee(e).name) # ""
               /\ Len(CallArgs(e)) >= 1
               /\ CallArgs(e)[1].t = "Call"
               /\ HasUnknownStart(CallArgs(e)[1])
      [] OTHER -> FALSE

\* the script's expression is X.m(Y, ...) with m a binary, X a chain that
\* builds and Y a chain from an unknown name
FailingOperand(e) ==
    /\ IsMethodCall(e)
    /\ classify_binary(Callee(e).name) # ""
    /\ Builds(Receiver(e))
    /\ Len(CallArgs(e)) >= 1
    /\ CallArgs(e)[1].t = "Call"
    /\ HasUnknownStart(CallArgs(e)[1])

C26_UnknownStartFailsWhole ==
    /\ (pc # "start" /\ ExprStmts # {} /\ HasUnknownStart(FirstExpr)) => root = NoId
    /\ (pc = "done" /\ ExprStmts # {} /\ HasUnknownStart(FirstExpr)) =>
          (color = NoWord /\ Stores = {} /\ \A p \in 1 .. Len(log) : log[p].ev # "enter")
    /\ (pc # "start" /\ ExprStmts # {} /\ FailingOperand(FirstExpr)) =>
          LET x == build_expr(<<>>, Receiver(FirstExpr))
          IN  /\ x.nodes # <<>>
              /\ Len(nodes) >= Len(x.nodes)
              /\ SubSeq(nodes, 1, Len(x.nodes)) = x.nodes

\* osc().add(foo(), 0.5): none, with the osc node left in the arena
C26_Witness ==
    /\ pc = "done"
    /\ script = <<ExprStmt(MethodCall(SourceCall("osc", <<>>), "add",
                                      <<SourceCall("foo", <<>>), Num(500)>>))>>
    /\ root = NoId
    /\ nodes = <<Source("Osc", <<>>)>>
    /\ color = NoWord

(***************************************************************************)
(* C27.  A colour is stored to FragColor if and only if the builder        *)
(* returned a root.  For every arena the builder produces, emit_ir_node    *)
(* returns a colour on every node (never none): each source emitter that   *)
(* reads `_st` finds it, emit_source having installed it.  When the        *)
(* builder returns none, main has no store.                                *)
(***************************************************************************)
\* positions of the log where a source emitter reads `_st`
StReads == {p \in 1 .. Len(log) : log[p].ev = "get" /\ log[p].key = "_st"}

C27_StoreIffRoot ==
    Emitted =>
        /\ (Stores # {}) <=> (root # NoId)
        /\ (root # NoId) <=> (color # NoWord)
        /\ \A p \in 1 .. Len(log) : log[p].ev = "exit" => log[p].w # NoWord
        /\ \A p \in StReads :
              /\ log[p].w # NoWord
              /\ p > 1 /\ log[p - 1].ev = "insert" /\ log[p - 1].key = "_st"
        /\ (root = NoId) => \A i \in 1 .. Len(body) : body[i].op # "Store"

\* a chain on osc: `_st` read once, a colour returned and stored
C27_Witness ==
    /\ pc = "done"
    /\ root # NoId
    /\ NodeAt(nodes, root).kind # "Source"
    /\ \E p \in StReads : log[p].w = compute_uv
    /\ color.op = "osc"
    /\ Stores = {1}

(***************************************************************************)
(* C28.  A binary method call X.m(...) whose first argument is absent or   *)
(* is no call expression (X.add(0.5), X.blend()) pushes no node and        *)
(* returns the root of X, for every binary kind.                           *)
(***************************************************************************)
\* the script is X.m(args) with X a chain that builds and args without an
\* operand chain in front
BinaryCallWithoutOperand ==
    /\ MethodCallOn(BinaryNames)
    /\ classify_binary(Callee(TopExpr).name) # ""
    /\ (CallArgs(TopExpr) = <<>> \/ CallArgs(TopExpr)[1].t # "Call")

C28_BinaryWithoutOperandPassesThrough ==
    /\ (pc # "start" /\ BinaryCallWithoutOperand) =>
          LET x == build_expr(<<>>, Receiver(TopExpr))
          IN  /\ nodes = x.nodes
              /\ root = x.id
              /\ root # NoId
              /\ NodeAt(nodes, root).kind # "Binary"
    /\ (pc = "done" /\ BinaryCallWithoutOperand) =>
          color = compile(<<ExprStmt(Receiver(TopExpr))>>).w

\* gradient().rotate(0.5).layer(0.5): the Spatial node is the root
C28_Witness ==
    /\ pc = "done"
    /\ TopExpr = MethodCall(MethodCall(Gradient0, "rotate", <<Num(500)>>), "layer", <<Num(500)>>)
    /\ Len(nodes) = 2
    /\ root = 1
    /\ NodeAt(nodes, root).kind = "Spatial"
    /\ color.op = "gradient"

(***************************************************************************)
(* C29.  A Src(i) source that finds buffer o{i} defined returns the stored *)
(* colour whatever coordinate it is evaluated at: the colour computed at   *)
(* the coordinate where the Output node was evaluated.  Spatial transforms *)
(* and modulation applied to src(i) leave its result as it is.             *)
(***************************************************************************)
\* context.variables as it is when the call at position p of the log is made
VarsAt(p) ==
    LET at(k) == {i \in 1 .. p - 1 : log[i].ev = "insert" /\ log[i].key = k}
        keys == {log[i].key : i \in {j \in 1 .. p - 1 : log[j].ev = "insert"}}
    IN  [k \in keys |-> log[CHOOSE i \in at(k) : \A j \in at(k) : j <= i].w]

\* coordinates a source could be handed
OtherCoords(c) ==
    {compute_uv, scale_coord(c, 2000, 2000), rotate_coord(compute_uv, 500, 0),
     displace_coord_from_color(c, T("solid", <<750, 0, 0, 1000>>, <<>>), 500)}

\* positions where a Src source is entered with its buffer defined
DefinedSrcEnters ==
    {p \in EntersOf({"Source"}) :
        IsSrc(NodeOf(p)) /\ OutputsBefore(p, IndexOf(NodeOf(p))) # {}}

\* the nodes above id whose result is that of id when transforms and
\* modulation do not change it: spatial parents and modulated left operands
RECURSIVE CoordinateParents(_)
CoordinateParents(id) ==
    IF id = root THEN {}
    ELSE LET up == Parent(id)
             n == NodeAt(nodes, up)
         IN  IF n.kind = "Spatial" \/ (n.kind = "Binary" /\ is_modulating(n.ty) /\ n.a = id)
             THEN {up} \cup CoordinateParents(up)
             ELSE {}

C29_SrcIgnoresCoordinate ==
    Emitted =>
        \A p \in DefinedSrcEnters :
            LET outs == OutputsBefore(p, IndexOf(NodeOf(p)))
                q == CHOOSE x \in outs : \A y \in outs : y <= x
                out == NodeAt(nodes, log[q].id)
                stored == log[ExitOfNode(out.a)].w
            IN  /\ log[ExitIdx(p)].w = stored
                /\ log[EnterOfNode(out.a)].w = log[EnterOfNode(log[q].id)].w
                /\ \A c \in OtherCoords(log[p].w) :
                      emit_source([vars |-> VarsAt(p), log |-> <<>>], "Src",
                                  NodeOf(p).args, c).w = stored
                /\ \A up \in CoordinateParents(log[p].id) : log[ExitOfNode(up)].w = stored

\* gradient().out(0).rotate(0.5).add(src(0).scale(2)): src(0) is evaluated
\* at the scaled coordinate and returns the gradient at the rotated one
C29_Witness ==
    /\ pc = "done"
    /\ TopExpr = MethodCall(MethodCall(MethodCall(Gradient0, "out", <<Num(0)>>),
                                       "rotate", <<Num(500)>>),
                            "add", <<MethodCall(Src0, "scale", <<Num(2000)>>)>>)
    /\ \E p \in DefinedSrcEnters :
          /\ log[p].w = scale_coord(compute_uv, 2000, 2000)
          /\ log[ExitIdx(p)].w = T("gradient", <<>>, <<rotate_coord(compute_uv, 500, 0)>>)
          /\ CoordinateParents(log[p].id) # {}

(***************************************************************************)
(* C30.  At every source emission `_st` is the coordinate emit_ir_node     *)
(* threaded to that source node, never one left by a subtree evaluated     *)
(* before; `_st` and `_base_uv` are never written under a buffer key, and  *)
(* `_base_uv` keeps the base coordinate.                                   *)
(***************************************************************************)
\* the keys Output nodes write
BufferKeys == {buffer_key(NodeAt(nodes, id).index) : id \in {x \in Ids : NodeAt(nodes, x).kind = "Output"}}

C30_StIsThreadedCoord ==
    Emitted =>
        /\ \A p \in EntersOf({"Source"}) :
              /\ log[p + 1] = Ev("insert", NoId, "_st", log[p].w)
              /\ VarsAt(p + 2)["_st"] = log[p].w
        /\ \A p \in StReads :
              /\ log[p - 2].ev = "enter" /\ NodeOf(p - 2).kind = "Source"
              /\ log[p].w = log[p - 2].w
        /\ \A k \in BufferKeys : k \notin {"_st", "_base_uv"}
        /\ \A i \in 1 .. Len(log) :
              log[i].ev = "insert" =>
                  \/ log[i].key = "_base_uv" /\ i = 1 /\ log[i].w = compute_uv
                  \/ log[i].key = "_st" /\ log[i - 1].ev = "enter"
                  \/ log[i].key \in BufferKeys /\ log[i - 1].ev = "exit"
        /\ variables["_base_uv"] = compute_uv

\* gradient().rotate(0.5).out(0).add(gradient()): the right gradient reads
\* the base coordinate, not the rotated one the left gradient left in `_st`
C30_Witness ==
    /\ pc = "done"
    /\ TopExpr = MethodCall(MethodCall(MethodCall(Gradient0, "rotate", <<Num(500)>>),
                                       "out", <<Num(0)>>),
                            "add", <<Gradient0>>)
    /\ \E p, q \in StReads :
          /\ p < q
          /\ log[p].w = rotate_coord(compute_uv, 500, 0)
          /\ log[q].w = compute_uv
    /\ variables["_st"] = compute_uv

====
